---- MODULE Spec2Model ----
(***************************************************************************)
(* Model of the document formatting validator, app/utils/formatting.py.   *)
(*                                                                         *)
(* Specification Spec follows one call of check_document_formatting step   *)
(* by step over a three-path file system (input, working copy, error       *)
(* report), and a second call on the same paths.  The six validation       *)
(* passes are operators over an abstract document: a paragraph carries     *)
(* the attributes the modelled rules read, and every other rule of a pass  *)
(* is taken to be satisfied by the modelled paragraph kinds.               *)
(*                                                                         *)
(* Specification SpecDedup applies remove_duplicate_errors to arbitrary    *)
(* short error lists.  SpecHeadings, SpecListEnds, SpecCaptions,           *)
(* SpecStructure and SpecTables apply one pass, or one rule of a pass, to  *)
(* every short document built from the paragraph kinds the rule reads.    *)
(* SpecCounters reads a list paragraph by paragraph as the loop of         *)
(* extract_list_items does.                                                *)
(* SpecListTree, SpecListOrder, SpecResourceNumbers and SpecGroups apply   *)
(* the list numbering checks and the grouping of extract_list_items;       *)
(* SpecCode, SpecGeneral, SpecSpacing, SpecCandidates and SpecLocate apply *)
(* the code classification, the skips of the general pass, the blank-line  *)
(* rule and the candidate loop of the heading pass, and the index lookup   *)
(* of the list errors.                                                     *)
(*                                                                         *)
(* Python sequences are 0-based; the model's are 1-based, and every index  *)
(* stored in an error record is the Python index (position - 1).          *)
(***************************************************************************)
EXTENDS Integers, Sequences, FiniteSets, TLC

\* Bounds of the model.
MaxParas == 2
MaxTables == 1
MaxCommentFaults == 1
MaxErrLen == 3
MaxHeadings == 5
MaxItems == 4
MaxCaptionParas == 3
MaxStructureParas == 3
MaxListRefs == 4
MaxTreeItems == 4
MaxResourceItems == 3
MaxGroupParas == 4

VARIABLES
    fs,             \* path -> file content
    pc,             \* position of the current call
    new_doc,        \* the in-memory Document opened from the working copy
    passErrors,     \* the error list each pass returned
    all_errors,     \* the local all_errors after remove_duplicate_errors
    result,         \* what the call returned: "none", "True", "False", "raised"
    passesDone,     \* all six passes returned
    raised,         \* the exception raised inside a pass: "none",
                    \* "numbering" or "unexpected"
    wroteReport,    \* json.dump to json_file_path ran in this call
    savedOut,       \* doc.save(new_file_path) ran in this call
    commentsCalled, \* add_comments_to_document was invoked in this call
    attempted,      \* record positions for which add_comment was attempted
    failed,         \* record positions whose add_comment raised
    prevRun,        \* outcome of the first call, once a second one started
    dIn, dOut, dDone, \* SpecDedup: input list, output list, applied
    fIn, fOut, fDone \* specifications of one pass: its input, the errors
                     \* it returned, applied

vars == <<fs, pc, new_doc, passErrors, all_errors, result, passesDone, raised,
          wroteReport, savedOut, commentsCalled, attempted, failed, prevRun,
          dIn, dOut, dDone,
                   fIn, fOut, fDone>>

----------------------------------------------------------------------------
\* Generic helpers.

SeqUpTo(S, n) == UNION {[1..k -> S] : k \in 0..n}

RECURSIVE Flatten(_)
Flatten(ss) == IF ss = <<>> THEN <<>> ELSE Head(ss) \o Flatten(Tail(ss))

Range(s) == {s[i] : i \in DOMAIN s}

Min(S) == CHOOSE x \in S : \A y \in S : x <= y

Max(S) == CHOOSE x \in S : \A y \in S : x >= y

\* F applied to the value of x, computed once.
With(x, F(_)) == CHOOSE r \in {F(v) : v \in {x}} : TRUE

----------------------------------------------------------------------------
\* Enumerations (app/utils/enums.py).

PARAGRAPH == "paragraph"
TABLE == "table"

DEFAULT == "format"
HEADING == "heading"
LIST == "list"
LISTING == "listing"
IMAGE == "image"
TEXT == "text"
TABLE_TEXT == "table"
CODE == "code"
STRUCTURE == "structure"

----------------------------------------------------------------------------
\* The document model.

\* The three required section titles, in the insertion order of the
\* expected_elements dict: Vvedenie, Zaklyuchenie, Perechen ispolzovannyh
\* informacionnyh resursov.
ExpectedElements == <<"Vvedenie", "Zaklyuchenie", "Perechen">>
ResourceTitle == "Perechen"

\* Two of the characters of the class [,:.\-] searched by
\* validate_bibliographic_entry.
PunctChars == {",", "."}

\* A paragraph: its stripped text, whether it carries w:numPr, whether it
\* holds an inline picture, whether its text has a run of two spaces,
\* whether its runs use Times New Roman, the set of punctuation characters
\* repeated in its text.
Para(text, numPr, pic, dbl, times, dup) ==
    [text |-> text, numPr |-> numPr, pic |-> pic, dbl |-> dbl,
     times |-> times, dup |-> dup]

\* A correctly formatted required title.
TitlePara(t) == Para(t, FALSE, FALSE, FALSE, TRUE, {})

\* The other paragraph kinds: body text with a double space, body text
\* in another font, a Word-numbered list item with repeated commas and
\* full stops, and an inline picture.
ParaSet ==
    {Para("Text  text.", FALSE, FALSE, TRUE, TRUE, {}),
     Para("Arial.", FALSE, FALSE, FALSE, FALSE, {}),
     Para("Ivanov,, I.I..", TRUE, FALSE, FALSE, TRUE, {",", "."}),
     Para("", FALSE, TRUE, FALSE, TRUE, {})}

InSet(S, c) == c \in S

\* The paragraph sequences: the required titles that are present, in
\* their order, followed by up to MaxParas further paragraphs.
ParaSeqs ==
    {[k \in DOMAIN ts |-> TitlePara(ts[k])] \o body :
        ts \in {SelectSeq(ExpectedElements, LAMBDA t : InSet(T, t)) :
                  T \in SUBSET Range(ExpectedElements)},
        body \in SeqUpTo(ParaSet, MaxParas)}

\* A table: centred or not.  Every modelled table has its caption.
TableSet == [centered : BOOLEAN]

\* word/numbering.xml: absent, well formed (every list is decimal with
\* template "%1."), or with a w:lvl that lacks its w:numFmt child.
NumberingKinds == {"absent", "ok", "malformed"}

Docs ==
    [paragraphs : ParaSeqs,
     tables : SeqUpTo(TableSet, MaxTables),
     numbering : NumberingKinds,
     hl : {{}},
     comments : {<<>>}]

RerunDocs == {d \in Docs : d.tables = <<>> /\ d.numbering \in {"ok", "malformed"}}

NoDoc ==
    [paragraphs |-> <<>>, tables |-> <<>>, numbering |-> "absent",
     hl |-> {}, comments |-> <<>>]

\* File contents.
NoFile == [kind |-> "none"]
Junk == [kind |-> "junk"]
DocxFile(d) == [kind |-> "docx", doc |-> d]
JsonFile(errs) == [kind |-> "json", errors |-> errs]

file_path == "file_path"
new_file_path == "new_file_path"
json_file_path == "json_file_path"
Paths == {file_path, new_file_path, json_file_path}

Exists(path) == fs[path].kind # "none"

----------------------------------------------------------------------------
\* Messages.  A message is its format string (an identifier) and the
\* values substituted into it.

Msg(id, args) == [id |-> id, args |-> args]

\* The keyword stems of add_error that occur in the lower-cased text of
\* each message.
Stems(msg) ==
    CASE msg.id = "doubleSpaces" -> {}
      [] msg.id = "missingElement" -> {"strukturn"}
      [] msg.id = "dupPunct" -> {}
      [] msg.id = "badListFormat" -> {"spis"}
      [] msg.id = "tableNotCentered" -> {"tablic"}
      [] msg.id = "imageAfterBlank" -> {"izobrazh"}
      [] msg.id = "imageNoCaption" -> {"zagolov", "risunok", "izobrazh"}
      [] msg.id = "fontNotTimes" -> {"abzac"}
      [] msg.id = "tableWrongAppendix" -> {"tablic", "prilozhen"}
      [] msg.id = "tableAppendixNumber" -> {"tablic", "prilozhen"}
      [] msg.id = "tableZeroNumber" -> {"tablic"}
      [] msg.id = "tableSectionNumber" -> {"tablic"}
      [] msg.id = "tableDifferentFormat" -> {"tablic"}
      [] msg.id = "tableSequentialNumber" -> {"tablic"}
      [] msg.id = "tableMalformed" -> {"tablic", "prilozhen"}
      [] msg.id = "imageWrongAppendix" -> {"izobrazh", "prilozhen"}
      [] msg.id = "imageAppendixNumber" -> {"risunok", "izobrazh", "prilozhen"}
      [] msg.id = "imageZeroNumber" -> {"izobrazh"}
      [] msg.id = "imageSectionNumber" -> {"risunok", "izobrazh"}
      [] msg.id = "imageDifferentFormat" -> {"risunok", "izobrazh"}
      [] msg.id = "imageSequentialNumber" -> {"risunok", "izobrazh"}
      [] msg.id = "imageMalformed" -> {"risunok", "izobrazh"}
      [] msg.id = "tableWrongHeading" -> {"zagolov", "tablic"}
      [] msg.id = "imageCaptionBlankAfter" -> {"izobrazh"}
      [] msg.id = "continuationWithoutTable" -> {"tablic"}
      [] msg.id = "endingWithoutTable" -> {"tablic"}
      [] msg.id = "continuationWrongAppendix" -> {"tablic", "prilozhen"}
      [] msg.id = "endingWrongAppendix" -> {"tablic", "prilozhen"}
      [] msg.id = "continuationWithoutEnding" -> {"tablic"}
      [] msg.id = "appendixBadLetter" -> {"prilozhen"}
      [] msg.id = "appendixDuplicateLetter" -> {"prilozhen"}
      [] msg.id = "listFirstEnd" -> {"spis"}
      [] msg.id = "listLastEnd" -> {"spis"}
      [] msg.id = "listSameEnd" -> {"spis"}
      [] msg.id = "headingParentSequence" -> {"zagolov"}
      [] msg.id = "headingSequence" -> {"zagolov"}
      [] msg.id = "subheadingFromOne" -> {"zagolov"}
      [] msg.id = "headingDepth" -> {"zagolov"}
      [] msg.id = "headingPunctuation" -> {"zagolov"}
      [] msg.id = "headingNotFormatted" -> {"zagolov"}
      [] OTHER -> {}

ErrType(msg) ==
    LET s == Stems(msg) IN
    IF "zagolov" \in s THEN HEADING
    ELSE IF "spis" \in s THEN LIST
    ELSE IF "listing" \in s THEN LISTING
    ELSE IF "tablic" \in s THEN TABLE_TEXT
    ELSE IF "risunok" \in s \/ "izobrazh" \in s THEN IMAGE
    ELSE IF "abzac" \in s THEN TEXT
    ELSE IF "kod" \in s THEN CODE
    ELSE IF "strukturn" \in s \/ "prilozhen" \in s THEN STRUCTURE
    ELSE DEFAULT

\* The element argument of add_error.
ParaElem(p) == [is |-> "Paragraph", text |-> p.text]
StrElem(s) == [is |-> "str", text |-> s]
TableElem == [is |-> "Table", text |-> ""]

\* add_error: the record appended to the list.  index is <<>> for None.
ErrorDict(msg, element, index, element_type) ==
    [type |-> ErrType(msg),
     message |-> msg,
     paragraph_text |->
        IF element.is = "Paragraph" /\ element.text # "" THEN element.text
        ELSE IF element.is = "str" THEN element.text
        ELSE "",
     index |-> IF index # <<>> THEN index[1] ELSE -1,
     element_type |-> element_type]

add_error(errors, msg, element, index, element_type) ==
    Append(errors, ErrorDict(msg, element, index, element_type))

\* paragraph.style.name; a paragraph given without a style has the
\* default one.
StyleName(p) == IF "style" \in DOMAIN p THEN p.style ELSE "Normal"

\* get_paragraph_index_by_content: the first paragraph that is the target
\* or has the same stripped text and the same style name.
get_paragraph_index_by_content(doc, i) ==
    Min({j \in 1..Len(doc.paragraphs) :
            \/ j = i
            \/ /\ doc.paragraphs[j].text = doc.paragraphs[i].text
               /\ StyleName(doc.paragraphs[j]) = StyleName(doc.paragraphs[i])}) - 1

----------------------------------------------------------------------------
\* Hash randomisation.  The iteration order of a set of strings depends
\* on the string hashes of the running interpreter, which are salted per
\* process: a seed is one iteration order of the punctuation characters.

HashSeeds ==
    {s \in [1..Cardinality(PunctChars) -> PunctChars] : Range(s) = PunctChars}

\* list(set(xs)) under a seed.
SetOrder(seed, S) == SelectSeq(seed, LAMBDA c : InSet(S, c))

----------------------------------------------------------------------------
\* The passes.  Each returns its error list and the set of paragraphs
\* (positions) whose runs it highlighted with set_red_background.

NoOut == [errors |-> <<>>, hl |-> {}]

Join(outs) ==
    [errors |-> Flatten([k \in DOMAIN outs |-> outs[k].errors]),
     hl |-> UNION {outs[k].hl : k \in DOMAIN outs}]

\* check_double_spaces for the paragraph at position i.
check_double_spaces(doc, i) ==
    IF doc.paragraphs[i].dbl
    THEN [errors |-> add_error(<<>>, Msg("doubleSpaces", <<>>),
                               ParaElem(doc.paragraphs[i]), <<i - 1>>,
                               PARAGRAPH),
          hl |-> {i}]
    ELSE NoOut

\* get_numbering_formats: raises on a level without w:numFmt, returns the
\* empty map when the numbering part is None, else numId -> format.
get_numbering_formats(doc) ==
    [raised |-> doc.numbering = "malformed",
     num_map |-> IF doc.numbering = "ok" THEN [n \in {"1"} |-> "decimal"]
                 ELSE [n \in {} |-> "decimal"]]

\* num_map.get(nid, {}).get(lvl, {}).get('fmt')
FmtOf(num_map, nid) == IF nid \in DOMAIN num_map THEN num_map[nid] ELSE "None"

\* A paragraph read by the structural and caption passes carries, next to its
\* text, what the patterns of the passes extract from that text:
\*   kind    "heading"  a first-level heading "<n> Title"
\*           "appendix" a paragraph starting with "Prilozhenie"; valid when
\*                      the letter is one allowed letter
\*           "caption"  a paragraph starting with "Tablica" / "Risunok"
\*           "continuation", "ending"  "Prodolzhenie tablicy <number>",
\*                      "Okonchanie tablicy <number>"
\*   what    "table" or "image"
\*   form    of a caption's number: "seq" for N, "yx" for Y.N, "app" for
\*           L.N, "bad" when neither caption pattern matches
\*   number  the number as written; y, n, letter  its parts
Cap(kind, what, form, number, y, n, letter, valid) ==
    [kind |-> kind, what |-> what, form |-> form, number |-> number,
     y |-> y, n |-> n, letter |-> letter, valid |-> valid]

NoCap == Cap("other", "", "", "", 0, 0, "", FALSE)

CapOf(p) == IF "cap" \in DOMAIN p THEN p.cap ELSE NoCap

CapPara(text, cap) ==
    [text |-> text, numPr |-> FALSE, pic |-> FALSE, dbl |-> FALSE,
     times |-> TRUE, dup |-> {}, cap |-> cap]

CaptionWord(what) == IF what = "table" THEN "Tablica " ELSE "Risunok "

HeadingPara(n) ==
    CapPara(ToString(n) \o " Title",
            Cap("heading", "", "", ToString(n), 0, n, "", TRUE))

AppendixPara(letter, valid) ==
    CapPara("Prilozhenie " \o letter,
            Cap("appendix", "", "", "", 0, 0, letter, valid))

SeqCaption(what, n) ==
    CapPara(CaptionWord(what) \o ToString(n) \o " - Name",
            Cap("caption", what, "seq", ToString(n), 0, n, "", TRUE))

YxCaption(what, y, n) ==
    CapPara(CaptionWord(what) \o ToString(y) \o "." \o ToString(n) \o " - Name",
            Cap("caption", what, "yx", ToString(y) \o "." \o ToString(n),
                y, n, "", TRUE))

AppCaption(what, letter, n) ==
    CapPara(CaptionWord(what) \o letter \o "." \o ToString(n) \o " - Name",
            Cap("caption", what, "app", letter \o "." \o ToString(n),
                0, n, letter, TRUE))

ContinuationPara(number, letter) ==
    CapPara("Prodolzhenie tablicy " \o number,
            Cap("continuation", "table", "", number, 0, 0, letter, TRUE))

EndingPara(number, letter) ==
    CapPara("Okonchanie tablicy " \o number,
            Cap("ending", "table", "", number, 0, 0, letter, TRUE))

\* The positions of the paragraphs whose text is a required title or
\* starts with "Prilozhenie".
structural_paragraphs(doc) ==
    {i \in 1..Len(doc.paragraphs) :
        \/ doc.paragraphs[i].text \in Range(ExpectedElements)
        \/ CapOf(doc.paragraphs[i]).kind = "appendix"}

\* check_structural_elements, the letter of an appendix header at
\* paragraph i: the errors and appendix_letters after it.
appendix_letter_unrecorded(doc, i, acc) ==
    LET c == CapOf(doc.paragraphs[i]) IN
    IF ~c.valid
    THEN [acc EXCEPT !.errors =
             add_error(@, Msg("appendixBadLetter", <<c.letter>>),
                       ParaElem(doc.paragraphs[i]), <<i - 1>>, PARAGRAPH),
          !.hl = @ \cup {i}]
    ELSE acc

appendix_letter(doc, i, acc) ==
    LET c == CapOf(doc.paragraphs[i]) IN
    IF ~c.valid
    THEN [acc EXCEPT !.errors =
             add_error(@, Msg("appendixBadLetter", <<c.letter>>),
                       ParaElem(doc.paragraphs[i]), <<i - 1>>, PARAGRAPH),
          !.hl = @ \cup {i}]
    ELSE IF c.letter \in acc.appendix_letters
    THEN [acc EXCEPT !.errors =
             add_error(@, Msg("appendixDuplicateLetter", <<c.letter>>),
                       ParaElem(doc.paragraphs[i]), <<i - 1>>, PARAGRAPH),
          !.hl = @ \cup {i}]
    ELSE [acc EXCEPT !.appendix_letters = @ \cup {c.letter}]

\* check_structural_elements, the loop over the paragraphs: the required
\* titles are marked as seen, the appendix headers are checked.
RECURSIVE StructuralScan(_, _, _)
StructuralScan(doc, i, acc) ==
    IF i > Len(doc.paragraphs) THEN acc
    ELSE IF doc.paragraphs[i].text \in Range(ExpectedElements)
    THEN StructuralScan(doc, i + 1,
             [acc EXCEPT !.seen = @ \cup {doc.paragraphs[i].text}])
    ELSE IF CapOf(doc.paragraphs[i]).kind = "appendix"
    THEN StructuralScan(doc, i + 1, appendix_letter(doc, i, acc))
    ELSE StructuralScan(doc, i + 1, acc)

\* The index given to the error of a missing required title.
MissingElementIndexNone == <<>>

MissingElementIndex == <<0>>

\* check_structural_elements: the errors of the loop, then one error per
\* required title never seen, with element the title string.
check_structural_elements(doc) ==
    LET acc == StructuralScan(doc, 1,
                   [seen |-> {}, appendix_letters |-> {}, errors |-> <<>>,
                    hl |-> {}])
        miss(k) ==
            IF ExpectedElements[k] \in acc.seen THEN <<>>
            ELSE add_error(<<>>, Msg("missingElement", <<ExpectedElements[k]>>),
                           StrElem(ExpectedElements[k]), MissingElementIndex,
                           PARAGRAPH)
    IN [errors |-> acc.errors
                   \o Flatten([k \in DOMAIN ExpectedElements |-> miss(k)]),
        hl |-> acc.hl]

\* Python dictionaries.
DictGet(d, k, default) == IF k \in DOMAIN d THEN d[k] ELSE default
DictPut(d, k, v) == [x \in DOMAIN d \cup {k} |-> IF x = k THEN v ELSE d[x]]
EmptyDict == <<>>

\* The local variables of a caption pass before its loop.  "" stands for
\* None in current_appendix and last_caption_format, NoHeading in
\* current_heading, -1 in tracker_paragraph (continuation_tracker without
\* the key 'paragraph').
NoHeading == -1

InitialCaptionState ==
    [current_appendix |-> "",
     current_heading |-> NoHeading,
     last_caption_format |-> "",
     sequential_numbers |-> [k \in {"main"} |-> 0],
     heading_numbers |-> {},
     section_numbers |-> EmptyDict,
     table_captions |-> {},
     continuation_tracker |-> EmptyDict,
     tracker_keys |-> <<>>,
     tracker_paragraph |-> -1,
     errors |-> <<>>,
     hl |-> {}]

\* A first-level heading: the start of either loop body.
note_heading_first_only(c, st) ==
    IF c.kind = "heading" /\ st.current_heading = NoHeading
    THEN [st EXCEPT !.current_heading = c.n,
                    !.heading_numbers = @ \cup {c.n},
                    !.section_numbers = DictPut(@, c.n, 0)]
    ELSE st

note_heading(c, st) ==
    IF c.kind = "heading"
    THEN [st EXCEPT !.current_heading = c.n,
                    !.heading_numbers = @ \cup {c.n},
                    !.section_numbers = DictPut(@, c.n, 0)]
    ELSE st

\* An appendix marker: a valid letter becomes current_appendix.
note_appendix_clearing(c, st) ==
    [st EXCEPT !.current_appendix = IF c.valid THEN c.letter ELSE "",
               !.sequential_numbers =
                   IF c.valid /\ c.letter \notin DOMAIN @
                   THEN DictPut(@, c.letter, 0) ELSE @]

note_appendix(c, st) ==
    IF c.valid
    THEN [st EXCEPT !.current_appendix = c.letter,
                    !.sequential_numbers =
                        IF c.letter \in DOMAIN @ THEN @
                        ELSE DictPut(@, c.letter, 0)]
    ELSE st

\* Whether the caption pattern of the current context matches.
caption_match(c, st) ==
    IF st.current_appendix # "" THEN c.form = "app"
    ELSE c.form \in {"seq", "yx"}

\* One error of a caption pass, on paragraph i of the document.
CaptionError(doc, i, id, args, errors) ==
    add_error(errors, Msg(id, args), ParaElem(doc.paragraphs[i]), <<i - 1>>,
              PARAGRAPH)

\* last_caption_format after a main-body caption.
next_caption_format_first(last_caption_format, current_format) ==
    IF last_caption_format = "" THEN current_format ELSE last_caption_format

next_caption_format(last_caption_format, current_format) == current_format

\* The number of a caption whose pattern matched, in an appendix.  The
\* image pass has the same statements with "Risunok".
appendix_number_checks(what, doc, i, c, st) ==
    LET A == st.current_appendix
        cnt == DictGet(st.sequential_numbers, A, 0) + 1
        e1 == IF c.letter # A
              THEN CaptionError(doc, i, what \o "WrongAppendix", <<A>>, <<>>)
              ELSE <<>>
        e2 == IF c.n # cnt
              THEN CaptionError(doc, i, what \o "AppendixNumber",
                                <<A \o "." \o ToString(cnt), c.number>>, <<>>)
              ELSE <<>>
    IN [st |-> [st EXCEPT !.sequential_numbers = DictPut(@, A, cnt)],
        caption_errors |-> e1 \o e2]

\* The number of a caption whose pattern matched, in the main body.  The
\* image pass has the same statements with "Risunok", without the check
\* of the heading the number refers to.
main_number_checks(what, doc, i, c, st) ==
    LET isYx == c.form = "yx"
        counted == isYx /\ st.current_heading # NoHeading
        scnt == DictGet(st.section_numbers, st.current_heading, 0) + 1
        expected_number == ToString(st.current_heading) \o "." \o ToString(scnt)
        current_format == IF isYx THEN "yx" ELSE "sequential"
        mcnt == st.sequential_numbers["main"] + 1
        e0 == IF isYx /\ c.n = 0
              THEN CaptionError(doc, i, what \o "ZeroNumber", <<c.number>>, <<>>)
              ELSE <<>>
        e1 == IF isYx /\ what = "table" /\ c.y \notin st.heading_numbers
              THEN CaptionError(doc, i, "tableWrongHeading", <<c.y>>, <<>>)
              ELSE <<>>
        e2 == IF counted /\ c.number # expected_number
              THEN CaptionError(doc, i, what \o "SectionNumber",
                                <<expected_number, c.number>>, <<>>)
              ELSE <<>>
        e3 == IF st.last_caption_format # ""
                 /\ st.last_caption_format # current_format
              THEN CaptionError(doc, i, what \o "DifferentFormat",
                                <<st.last_caption_format>>, <<>>)
              ELSE <<>>
        e4 == IF ~isYx /\ c.n # mcnt
              THEN CaptionError(doc, i, what \o "SequentialNumber",
                                <<ToString(mcnt), c.number>>, <<>>)
              ELSE <<>>
    IN [st |-> [st EXCEPT
                  !.section_numbers =
                      IF counted THEN DictPut(@, st.current_heading, scnt) ELSE @,
                  !.last_caption_format =
                      next_caption_format(@, current_format),
                  !.sequential_numbers =
                      IF isYx THEN @ ELSE DictPut(@, "main", mcnt)],
        caption_errors |-> e0 \o e1 \o e2 \o e3 \o e4]

caption_number_checks(what, doc, i, c, st) ==
    IF st.current_appendix # ""
    THEN appendix_number_checks(what, doc, i, c, st)
    ELSE main_number_checks(what, doc, i, c, st)

\* continuation_tracker[number] = value; the dictionary keeps the order in
\* which its keys were first set.
track(st, number, value, i) ==
    [st EXCEPT !.continuation_tracker = DictPut(@, number, value),
               !.tracker_keys = IF number \in Range(@) THEN @
                                ELSE Append(@, number),
               !.tracker_paragraph = i]

\* check_table_formatting, a paragraph starting with "Tablica".
table_caption(doc, i, c, st) ==
    IF ~caption_match(c, st)
    THEN [st EXCEPT !.errors = CaptionError(doc, i, "tableMalformed", <<>>, @),
                    !.hl = @ \cup {i}]
    ELSE With(caption_number_checks("table", doc, i, c, st),
              LAMBDA r :
                track([r.st EXCEPT !.errors = @ \o r.caption_errors,
                                   !.hl = IF r.caption_errors # <<>>
                                          THEN @ \cup {i} ELSE @,
                                   !.table_captions = @ \cup {c.number}],
                      c.number, FALSE, i))

\* check_table_formatting, a continuation (open = TRUE) or an ending
\* (open = FALSE) caption.
table_continuation(doc, i, c, st, open) ==
    LET word == IF open THEN "continuation" ELSE "ending"
        e1 == IF c.number \notin st.table_captions
              THEN CaptionError(doc, i, word \o "WithoutTable", <<c.number>>, <<>>)
              ELSE <<>>
        e2 == IF st.current_appendix # "" /\ c.letter # st.current_appendix
              THEN CaptionError(doc, i, word \o "WrongAppendix",
                                <<st.current_appendix>>, <<>>)
              ELSE <<>>
    IN With(e1 \o e2,
            LAMBDA e :
              track([st EXCEPT !.errors = @ \o e,
                               !.hl = IF e # <<>> THEN @ \cup {i} ELSE @],
                    c.number, open, i))

\* check_table_formatting, the body of the loop over the paragraphs.
table_paragraph(doc, i, st) ==
    LET c == CapOf(doc.paragraphs[i])
        st1 == note_heading(c, st)
    IN IF c.kind = "appendix" THEN note_appendix(c, st1)
       ELSE IF c.kind = "caption" /\ c.what = "table"
       THEN table_caption(doc, i, c, st1)
       ELSE IF c.kind \in {"continuation", "ending"}
       THEN table_continuation(doc, i, c, st1, c.kind = "continuation")
       ELSE st1

\* check_table_formatting, the loop over the paragraphs.
RECURSIVE TableCaptionScan(_, _, _)
TableCaptionScan(doc, i, st) ==
    IF i > Len(doc.paragraphs) THEN st
    ELSE With(st, LAMBDA v : TableCaptionScan(doc, i + 1, table_paragraph(doc, i, v)))

\* check_table_formatting, the continuations left open: one record per
\* number, located at the paragraph continuation_tracker['paragraph'].
unclosed_continuations(doc, st) ==
    LET open == SelectSeq(st.tracker_keys,
                          LAMBDA num : /\ st.continuation_tracker[num]
                                       /\ num \in st.table_captions)
    IN [k \in DOMAIN open |->
          ErrorDict(Msg("continuationWithoutEnding", <<open[k]>>),
                    ParaElem(doc.paragraphs[st.tracker_paragraph]),
                    <<st.tracker_paragraph - 1>>, TABLE)]

\* check_table_formatting, the loop over doc.tables.
table_loop(doc) ==
    LET one(t) ==
            IF ~doc.tables[t].centered
            THEN add_error(<<>>, Msg("tableNotCentered", <<>>), TableElem,
                           <<t - 1>>, TABLE)
            ELSE <<>>
    IN Flatten([t \in DOMAIN doc.tables |-> one(t)])

\* check_table_formatting: the captions, the tables, the continuations
\* left open.
check_table_formatting(doc) ==
    With(TableCaptionScan(doc, 1, InitialCaptionState),
         LAMBDA st :
           [errors |-> st.errors \o table_loop(doc) \o unclosed_continuations(doc, st),
            hl |-> st.hl])

\* check_image_formatting, a paragraph starting with "Risunok".
figure_caption(doc, i, c, st) ==
    IF ~caption_match(c, st)
    THEN [st EXCEPT !.errors = CaptionError(doc, i, "imageMalformed", <<>>, @),
                    !.hl = @ \cup {i}]
    ELSE LET is_next_empty == i < Len(doc.paragraphs)
                              /\ doc.paragraphs[i + 1].text = ""
             blank == IF is_next_empty
                      THEN CaptionError(doc, i, "imageCaptionBlankAfter", <<>>, <<>>)
                      ELSE <<>>
         IN With(caption_number_checks("image", doc, i, c, st),
                 LAMBDA r :
                   [r.st EXCEPT !.errors = @ \o r.caption_errors \o blank,
                                !.hl = IF r.caption_errors \o blank # <<>>
                                       THEN @ \cup {i} ELSE @])

\* check_image_formatting, the branch of a paragraph holding <pic:pic:
\* no blank line before it, a matching caption right after it.
picture_branch(doc, i, st) ==
    IF i > 1
    THEN LET found_caption ==
                 /\ i < Len(doc.paragraphs)
                 /\ CapOf(doc.paragraphs[i + 1]).kind = "caption"
                 /\ CapOf(doc.paragraphs[i + 1]).what = "image"
                 /\ caption_match(CapOf(doc.paragraphs[i + 1]), st)
             e1 == IF doc.paragraphs[i - 1].text = ""
                   THEN CaptionError(doc, i, "imageAfterBlank", <<>>, <<>>)
                   ELSE <<>>
             e2 == IF found_caption THEN <<>>
                   ELSE CaptionError(doc, i, "imageNoCaption", <<>>, <<>>)
         IN [st EXCEPT !.errors = @ \o e1 \o e2]
    ELSE st

\* check_image_formatting, the body of the loop over the paragraphs.
image_paragraph(doc, i, st) ==
    LET c == CapOf(doc.paragraphs[i])
        st1 == note_heading(c, st)
    IN IF c.kind = "appendix" THEN note_appendix(c, st1)
       ELSE IF c.kind = "caption" /\ c.what = "image"
       THEN figure_caption(doc, i, c, st1)
       ELSE IF doc.paragraphs[i].pic THEN picture_branch(doc, i, st1)
       ELSE st1

\* check_image_formatting, the loop over the paragraphs.
RECURSIVE ImageCaptionScan(_, _, _)
ImageCaptionScan(doc, i, st) ==
    IF i > Len(doc.paragraphs) THEN st
    ELSE With(st, LAMBDA v : ImageCaptionScan(doc, i + 1, image_paragraph(doc, i, v)))

check_image_formatting(doc) ==
    With(ImageCaptionScan(doc, 1, InitialCaptionState),
         LAMBDA st : [errors |-> st.errors, hl |-> st.hl])

\* check_headings_formatting: no modelled paragraph is bold, so each one
\* that is not excluded is checked for double spaces and then routed to
\* list_candidates.
check_headings_formatting(doc) ==
    LET one(i) ==
            IF doc.paragraphs[i].text = "" \/ i \in structural_paragraphs(doc)
            THEN NoOut
            ELSE check_double_spaces(doc, i)
    IN Join([i \in DOMAIN doc.paragraphs |-> one(i)])

\* extract_list_items, the grouping: the positions collected into
\* resource_groups.  cur is the group being collected, acc the result.
RECURSIVE ResourceScan(_, _, _, _, _)
ResourceScan(ps, i, is_resource_section, cur, acc) ==
    IF i > Len(ps)
    THEN IF is_resource_section THEN acc \cup cur ELSE acc
    ELSE IF ps[i].text = ResourceTitle
    THEN ResourceScan(ps, i + 1, TRUE, {}, acc)
    ELSE IF ~ps[i].numPr
    THEN IF ps[i].text # "" /\ cur # {}
         THEN ResourceScan(ps, i + 1, FALSE, {},
                           IF is_resource_section THEN acc \cup cur ELSE acc)
         ELSE ResourceScan(ps, i + 1, is_resource_section, cur, acc)
    ELSE ResourceScan(ps, i + 1, is_resource_section, cur \cup {i}, acc)

resource_paragraphs(doc) == ResourceScan(doc.paragraphs, 1, FALSE, {}, {})

\* extract_list_items, the errors: validate_prefix_format rejects every
\* format other than decimal.
extract_list_items(doc) ==
    LET num_map == get_numbering_formats(doc).num_map
        one(i) ==
            IF doc.paragraphs[i].numPr /\ FmtOf(num_map, "1") # "decimal"
            THEN [errors |-> add_error(<<>>, Msg("badListFormat", <<>>),
                                       ParaElem(doc.paragraphs[i]),
                                       <<get_paragraph_index_by_content(doc, i)>>,
                                       PARAGRAPH),
                  hl |-> {i}]
            ELSE NoOut
    IN Join([i \in DOMAIN doc.paragraphs |-> one(i)])

\* validate_bibliographic_entry, the repeated-punctuation check: the
\* message joins set(duplicate_punct) in its iteration order.
validate_bibliographic_entry(doc, i, seed) ==
    IF doc.paragraphs[i].dup # {}
    THEN [errors |-> add_error(<<>>,
                               Msg("dupPunct",
                                   SetOrder(seed, doc.paragraphs[i].dup)),
                               ParaElem(doc.paragraphs[i]),
                               <<get_paragraph_index_by_content(doc, i)>>,
                               PARAGRAPH),
          hl |-> {i}]
    ELSE NoOut

validate_resource_list(doc, seed) ==
    LET one(i) ==
            IF i \in resource_paragraphs(doc) /\ i \notin structural_paragraphs(doc)
            THEN validate_bibliographic_entry(doc, i, seed)
            ELSE NoOut
    IN Join([i \in DOMAIN doc.paragraphs |-> one(i)])

\* The terminal characters of list items.
ALLOWED_END_CHARS == {",", ";"}
FINAL_END_CHAR == "."
NoEndChar == "None"

\* An item of an ordinary list group: the position of its paragraph in the
\* document, the last character of its content (never empty here) and
\* whether a run of it is bold at 14 or 16 pt.
GroupItem(pos, end, potential_heading) ==
    [pos |-> pos, end |-> end, potential_heading |-> potential_heading]

\* One terminal punctuation error: the record, and the item's runs
\* highlighted.
ListEndError(doc, item, id, out) ==
    [errors |-> add_error(out.errors, Msg(id, <<>>),
                          ParaElem(doc.paragraphs[item.pos]),
                          <<get_paragraph_index_by_content(doc, item.pos)>>,
                          PARAGRAPH),
     hl |-> out.hl \cup {item.pos}]

\* validate_lists, the terminal punctuation loop over one group: ind is
\* the 1-based position in the group, end_char the terminator expected of
\* the items between the first and the last.
RECURSIVE terminal_punctuation_first_only(_, _, _, _, _)
terminal_punctuation_first_only(doc, group, ind, end_char, out) ==
    IF ind > Len(group) THEN out
    ELSE LET item == group[ind] IN
         IF item.potential_heading
         THEN terminal_punctuation_first_only(doc, group, ind + 1, end_char, out)
         ELSE IF ind = 1 /\ Len(group) > 1
         THEN terminal_punctuation_first_only(doc, group, ind + 1,
                  item.end,
                  IF item.end \notin ALLOWED_END_CHARS
                  THEN ListEndError(doc, item, "listFirstEnd", out)
                  ELSE out)
         ELSE IF ind = Len(group)
         THEN terminal_punctuation_first_only(doc, group, ind + 1, end_char,
                  IF item.end # FINAL_END_CHAR
                  THEN ListEndError(doc, item, "listLastEnd", out)
                  ELSE out)
         ELSE terminal_punctuation_first_only(doc, group, ind + 1, end_char,
                  IF item.end # end_char
                  THEN ListEndError(doc, item, "listSameEnd", out)
                  ELSE out)

RECURSIVE terminal_punctuation(_, _, _, _, _)
terminal_punctuation(doc, group, ind, end_char, out) ==
    IF ind > Len(group) THEN out
    ELSE LET item == group[ind] IN
         IF item.potential_heading
         THEN terminal_punctuation(doc, group, ind + 1, end_char, out)
         ELSE IF ind = 1 /\ Len(group) > 1
         THEN terminal_punctuation(doc, group, ind + 1,
                  IF item.end \in ALLOWED_END_CHARS THEN item.end ELSE NoEndChar,
                  IF item.end \notin ALLOWED_END_CHARS
                  THEN ListEndError(doc, item, "listFirstEnd", out)
                  ELSE out)
         ELSE IF ind = Len(group)
         THEN terminal_punctuation(doc, group, ind + 1, end_char,
                  IF item.end # FINAL_END_CHAR
                  THEN ListEndError(doc, item, "listLastEnd", out)
                  ELSE out)
         ELSE LET expected ==
                      IF end_char # NoEndChar THEN end_char
                      ELSE IF item.end \in ALLOWED_END_CHARS THEN item.end
                      ELSE ","
              IN terminal_punctuation(doc, group, ind + 1, expected,
                     IF item.end # expected
                     THEN ListEndError(doc, item, "listSameEnd", out)
                     ELSE out)

\* extract_list_items, the ordinary groups: the runs of numbered
\* paragraphs outside the resource section, as sequences of positions.
RECURSIVE GroupScan(_, _, _, _, _)
GroupScan(ps, i, is_resource_section, current, groups) ==
    IF i > Len(ps)
    THEN IF current # <<>> /\ ~is_resource_section
         THEN Append(groups, current) ELSE groups
    ELSE IF ps[i].text = ResourceTitle
    THEN GroupScan(ps, i + 1, TRUE, <<>>,
                   IF current # <<>> THEN Append(groups, current) ELSE groups)
    ELSE IF ~ps[i].numPr
    THEN IF ps[i].text # "" /\ current # <<>>
         THEN GroupScan(ps, i + 1, FALSE, <<>>,
                        IF is_resource_section THEN groups
                        ELSE Append(groups, current))
         ELSE GroupScan(ps, i + 1, is_resource_section, current, groups)
    ELSE GroupScan(ps, i + 1, is_resource_section, Append(current, i), groups)

\* validate_lists, the loop over the ordinary groups: the resource
\* paragraphs are filtered out of each group; every numbered paragraph of
\* ParaSet ends in "." and has no bold run.
ordinary_groups(doc) ==
    LET groups == GroupScan(doc.paragraphs, 1, FALSE, <<>>, <<>>)
        filtered(g) == SelectSeq(g, LAMBDA i : i \notin resource_paragraphs(doc))
    IN [k \in DOMAIN groups |->
          [j \in DOMAIN filtered(groups[k]) |->
              GroupItem(filtered(groups[k])[j], ".", FALSE)]]

validate_list_groups(doc) ==
    LET groups == ordinary_groups(doc)
    IN Join([k \in DOMAIN groups |->
                terminal_punctuation(doc, groups[k], 1, NoEndChar, NoOut)])

\* validate_lists: the extraction errors, the resource list errors, the
\* loop over the paragraphs, then the loop over the ordinary groups.
validate_lists(doc, seed) ==
    LET one(i) ==
            IF \/ doc.paragraphs[i].text = ""
               \/ i \in structural_paragraphs(doc)
               \/ i \in resource_paragraphs(doc)
            THEN NoOut
            ELSE check_double_spaces(doc, i)
    IN Join(<<extract_list_items(doc),
              validate_resource_list(doc, seed),
              Join([i \in DOMAIN doc.paragraphs |-> one(i)]),
              validate_list_groups(doc)>>)

\* The list_paragraphs returned by validate_lists.
list_paragraphs(doc) ==
    resource_paragraphs(doc)
    \cup {i \in 1..Len(doc.paragraphs) : doc.paragraphs[i].numPr}

\* check_general_formatting.
check_general_formatting(doc) ==
    LET one(i) ==
            IF \/ doc.paragraphs[i].text = ""
               \/ i \in structural_paragraphs(doc)
               \/ i \in list_paragraphs(doc)
            THEN NoOut
            ELSE Join(<<check_double_spaces(doc, i),
                        IF ~doc.paragraphs[i].times
                        THEN [errors |->
                                add_error(<<>>, Msg("fontNotTimes", <<>>),
                                          ParaElem(doc.paragraphs[i]),
                                          <<i - 1>>, PARAGRAPH),
                              hl |-> {i}]
                        ELSE NoOut>>)
    IN Join([i \in DOMAIN doc.paragraphs |-> one(i)])

PassNames ==
    {"structural", "table", "image", "heading", "list", "general"}

\* The six passes on one document in one interpreter.
RunPasses(doc, seed) ==
    [structural |-> check_structural_elements(doc),
     table |-> check_table_formatting(doc),
     image |-> check_image_formatting(doc),
     heading |-> check_headings_formatting(doc),
     list |-> validate_lists(doc, seed),
     general |-> check_general_formatting(doc)]

\* A variant that concatenates in the order the passes run.
ConcatErrorsRunOrder(po) ==
    po.structural \o po.table \o po.image \o po.heading \o po.list \o po.general

\* all_errors before deduplication.
ConcatErrors(po) ==
    po.structural \o po.heading \o po.list \o po.table \o po.image \o po.general

\* A variant whose key keeps "element".
ErrorKeyWithElement(error) == error

\* remove_duplicate_errors: the comparison key leaves out "element".
ErrorKey(error) == [k \in (DOMAIN error) \ {"element"} |-> error[k]]

RECURSIVE DedupLoop(_, _, _)
DedupLoop(errors, seen, unique_errors) ==
    IF errors = <<>> THEN unique_errors
    ELSE IF ErrorKey(Head(errors)) \in seen
    THEN DedupLoop(Tail(errors), seen, unique_errors)
    ELSE DedupLoop(Tail(errors), seen \cup {ErrorKey(Head(errors))},
                   Append(unique_errors, Head(errors)))

remove_duplicate_errors(errors) == DedupLoop(errors, {}, <<>>)

----------------------------------------------------------------------------
\* add_comments_to_document.

\* The guards of the loop body: a paragraph record with an index into
\* doc.paragraphs, or a table record with an index into doc.tables.
Commentable(doc, err) ==
    \/ /\ err.element_type = PARAGRAPH
       /\ 0 <= err.index /\ err.index < Len(doc.paragraphs)
    \/ /\ err.element_type = TABLE
       /\ 0 <= err.index /\ err.index < Len(doc.tables)

CommentablePositions(doc, errors) ==
    {k \in DOMAIN errors : Commentable(doc, errors[k])}

\* A variant with one try block around the whole loop.
AttemptedUntilFault(doc, errors, faults) ==
    {k \in CommentablePositions(doc, errors) : \A f \in faults : k <= f}

\* The records for which add_comment is called when the calls at the
\* positions in faults raise: each call sits in its own try block.
AttemptedPositions(doc, errors, faults) == CommentablePositions(doc, errors)

Comment(err) ==
    [on |-> err.element_type, index |-> err.index, message |-> err.message]

CommentAt(errors, k) == Comment(errors[k])

\* The document after the loop: one comment per call that returned.
add_comments_to_document(doc, errors, faults) ==
    LET ok == SelectSeq([k \in DOMAIN errors |-> k],
                        LAMBDA k : /\ k \in AttemptedPositions(doc, errors, faults)
                                   /\ k \notin faults)
    IN [doc EXCEPT !.comments = @ \o [j \in DOMAIN ok |-> CommentAt(errors, ok[j])]]

----------------------------------------------------------------------------
\* check_document_formatting, step by step.

\* A variant that saves the annotated document over the input.
output_path_input == file_path

\* The output_path argument handed to add_comments_to_document.
output_path == new_file_path

\* The sets of add_comment calls that may raise in one call.
FaultSets(S) == {F \in SUBSET S : Cardinality(F) <= MaxCommentFaults}

NoPasses == [n \in PassNames |-> <<>>]
NoRun == [ran |-> FALSE, result |-> "none", passesDone |-> FALSE, errors |-> <<>>]

InitCall ==
    /\ pc = "start"
    /\ new_doc = NoDoc
    /\ passErrors = NoPasses
    /\ all_errors = <<>>
    /\ result = "none"
    /\ passesDone = FALSE
    /\ raised = "none"
    /\ wroteReport = FALSE
    /\ savedOut = FALSE
    /\ commentsCalled = FALSE
    /\ attempted = {}
    /\ failed = {}

Init ==
    /\ \E input \in {NoFile, Junk} \cup {DocxFile(d) : d \in Docs} :
         fs = [p \in Paths |-> IF p = file_path THEN input ELSE NoFile]
    /\ InitCall
    /\ prevRun = NoRun
    /\ dIn = <<>> /\ dOut = <<>> /\ dDone = FALSE
    /\ fIn = <<>> /\ fOut = <<>> /\ fDone = FALSE

\* The call returns b.
Return(b) == result' = b /\ pc' = "done"

\* A variant that copies before it checks, leaving an empty working copy.
MissingInputCopies ==
    /\ pc = "start"
    /\ ~Exists(file_path)
    /\ fs' = [fs EXCEPT ![new_file_path] = Junk]
    /\ Return("False")
    /\ UNCHANGED <<new_doc, passErrors, all_errors, passesDone, raised,
                   wroteReport, savedOut, commentsCalled, attempted, failed,
                   prevRun, dIn, dOut, dDone,
                   fIn, fOut, fDone>>

\* os.path.exists(file_path) is false.
MissingInput ==
    /\ pc = "start"
    /\ ~Exists(file_path)
    /\ Return("False")
    /\ UNCHANGED <<fs, new_doc, passErrors, all_errors, passesDone, raised, wroteReport,
                   savedOut, commentsCalled, attempted, failed, prevRun,
                   dIn, dOut, dDone,
                   fIn, fOut, fDone>>

\* shutil.copyfile raises PermissionError.
CopyDenied ==
    /\ pc = "start"
    /\ Exists(file_path)
    /\ Return("False")
    /\ UNCHANGED <<fs, new_doc, passErrors, all_errors, passesDone, raised, wroteReport,
                   savedOut, commentsCalled, attempted, failed, prevRun,
                   dIn, dOut, dDone,
                   fIn, fOut, fDone>>

\* shutil.copyfile(file_path, new_file_path) succeeds.
CopyFile ==
    /\ pc = "start"
    /\ Exists(file_path)
    /\ fs' = [fs EXCEPT ![new_file_path] = fs[file_path]]
    /\ pc' = "copied"
    /\ UNCHANGED <<new_doc, passErrors, all_errors, result, passesDone, raised,
                   wroteReport, savedOut, commentsCalled, attempted, failed,
                   prevRun, dIn, dOut, dDone,
                   fIn, fOut, fDone>>

\* Document(new_file_path): raises unless the copy is a document package.
OpenDocument ==
    /\ pc = "copied"
    /\ IF fs[new_file_path].kind = "docx"
       THEN /\ new_doc' = fs[new_file_path].doc
            /\ pc' = "opened"
            /\ UNCHANGED result
       ELSE /\ Return("False")
            /\ UNCHANGED new_doc
    /\ UNCHANGED <<fs, passErrors, all_errors, passesDone, raised, wroteReport,
                   savedOut, commentsCalled, attempted, failed, prevRun,
                   dIn, dOut, dDone,
                   fIn, fOut, fDone>>

\* A variant without the top-level handler.
OnExceptionPropagates == "raised"

\* What the top-level handler makes of an exception raised inside the try
\* block.
OnException == "False"

\* get_numbering_formats raises on the malformed numbering part, in
\* extract_list_items; nothing catches it before the top-level handler.
NumberingRaises ==
    /\ pc = "opened"
    /\ get_numbering_formats(new_doc).raised
    /\ raised' = "numbering"
    /\ result' = OnException
    /\ pc' = "done"
    /\ UNCHANGED <<fs, new_doc, passErrors, all_errors, passesDone, wroteReport,
                   savedOut, commentsCalled, attempted, failed, prevRun,
                   dIn, dOut, dDone,
                   fIn, fOut, fDone>>

\* Some pass raises an unexpected exception.
PassCrashes ==
    /\ pc = "opened"
    /\ raised' = "unexpected"
    /\ result' = OnException
    /\ pc' = "done"
    /\ UNCHANGED <<fs, new_doc, passErrors, all_errors, passesDone, wroteReport,
                   savedOut, commentsCalled, attempted, failed, prevRun,
                   dIn, dOut, dDone,
                   fIn, fOut, fDone>>

\* All six passes return; the lists are concatenated and deduplicated.
RunAllPasses ==
    /\ pc = "opened"
    /\ ~get_numbering_formats(new_doc).raised
    /\ \E seed \in HashSeeds : \E po \in {RunPasses(new_doc, seed)} :
         /\ passErrors' = [n \in PassNames |-> po[n].errors]
         /\ new_doc' = [new_doc EXCEPT !.hl = UNION {po[n].hl : n \in PassNames}]
         /\ all_errors' = remove_duplicate_errors(ConcatErrors(passErrors'))
    /\ passesDone' = TRUE
    /\ pc' = "validated"
    /\ UNCHANGED <<fs, result, raised, wroteReport, savedOut, commentsCalled, attempted,
                   failed, prevRun, dIn, dOut, dDone,
                   fIn, fOut, fDone>>

\* A variant that goes through add_comments_to_document with the empty
\* list.
SaveCleanAnnotated ==
    /\ pc = "validated"
    /\ all_errors = <<>>
    /\ commentsCalled' = TRUE
    /\ fs' = [fs EXCEPT ![new_file_path] = DocxFile(new_doc)]
    /\ savedOut' = TRUE
    /\ Return("True")
    /\ UNCHANGED <<new_doc, passErrors, all_errors, passesDone, raised,
                   wroteReport, attempted, failed, prevRun, dIn, dOut, dDone,
                   fIn, fOut, fDone>>

\* A variant that returns without saving the working copy.
SaveCleanNoSave ==
    /\ pc = "validated"
    /\ all_errors = <<>>
    /\ Return("True")
    /\ UNCHANGED <<fs, new_doc, passErrors, all_errors, passesDone, raised,
                   wroteReport, savedOut, commentsCalled, attempted, failed,
                   prevRun, dIn, dOut, dDone,
                   fIn, fOut, fDone>>

\* if not all_errors: new_doc.save(new_file_path); return True
SaveClean ==
    /\ pc = "validated"
    /\ all_errors = <<>>
    /\ fs' = [fs EXCEPT ![new_file_path] = DocxFile(new_doc)]
    /\ savedOut' = TRUE
    /\ Return("True")
    /\ UNCHANGED <<new_doc, passErrors, all_errors, passesDone, raised, wroteReport,
                   commentsCalled, attempted, failed, prevRun, dIn, dOut, dDone,
                   fIn, fOut, fDone>>

\* json.dump(all_errors, f) into json_file_path.
WriteReport ==
    /\ pc = "validated"
    /\ all_errors # <<>>
    /\ fs' = [fs EXCEPT ![json_file_path] = JsonFile(all_errors)]
    /\ wroteReport' = TRUE
    /\ pc' = "reported"
    /\ UNCHANGED <<new_doc, passErrors, all_errors, result, passesDone, raised,
                   savedOut, commentsCalled, attempted, failed, prevRun,
                   dIn, dOut, dDone,
                   fIn, fOut, fDone>>

\* add_comments_to_document(new_doc, all_errors, new_file_path), ending
\* in doc.save(output_path); return True.  Any add_comment may raise.
AddComments ==
    /\ pc = "reported"
    /\ \E faults \in FaultSets(CommentablePositions(new_doc, all_errors)) :
         /\ failed' = faults \cap AttemptedPositions(new_doc, all_errors, faults)
         /\ attempted' = AttemptedPositions(new_doc, all_errors, faults)
         /\ new_doc' = add_comments_to_document(new_doc, all_errors, faults)
    /\ commentsCalled' = TRUE
    /\ fs' = [fs EXCEPT ![output_path] = DocxFile(new_doc')]
    /\ savedOut' = TRUE
    /\ Return("True")
    /\ UNCHANGED <<passErrors, all_errors, passesDone, raised, wroteReport, prevRun,
                   dIn, dOut, dDone,
                   fIn, fOut, fDone>>

\* The caller runs the validator a second time on the same paths, in the
\* same or in another interpreter.
Rerun ==
    /\ pc = "done"
    /\ ~prevRun.ran
    /\ prevRun' = [ran |-> TRUE, result |-> result, passesDone |-> passesDone,
                   errors |-> all_errors]
    /\ pc' = "start"
    /\ new_doc' = NoDoc
    /\ passErrors' = NoPasses
    /\ all_errors' = <<>>
    /\ result' = "none"
    /\ passesDone' = FALSE
    /\ raised' = "none"
    /\ wroteReport' = FALSE
    /\ savedOut' = FALSE
    /\ commentsCalled' = FALSE
    /\ attempted' = {}
    /\ failed' = {}
    /\ UNCHANGED <<fs, dIn, dOut, dDone,
                   fIn, fOut, fDone>>

Next ==
    \/ MissingInput
    \/ CopyDenied
    \/ CopyFile
    \/ OpenDocument
    \/ NumberingRaises
    \/ PassCrashes
    \/ RunAllPasses
    \/ SaveClean
    \/ WriteReport
    \/ AddComments

Spec == Init /\ [][Next]_vars

\* Two calls on the same paths, for a missing input and for the documents
\* without tables.
InitRerun == Init /\ fs[file_path] \in {NoFile} \cup {DocxFile(d) : d \in RerunDocs}

NextRerun == Next \/ Rerun

SpecRerun == InitRerun /\ [][NextRerun]_vars

----------------------------------------------------------------------------
\* remove_duplicate_errors on arbitrary lists.

\* Error dicts that differ from a base record in exactly one key, the
\* ignored key "element" included.
BaseError ==
    [type |-> DEFAULT, message |-> Msg("doubleSpaces", <<>>),
     paragraph_text |-> "Text  text.", index |-> 0, element_type |-> PARAGRAPH,
     element |-> "e1"]

ErrPool ==
    {BaseError,
     [BaseError EXCEPT !.type = TEXT],
     [BaseError EXCEPT !.message = Msg("fontNotTimes", <<>>)],
     [BaseError EXCEPT !.paragraph_text = "Arial."],
     [BaseError EXCEPT !.index = 1],
     [BaseError EXCEPT !.element_type = TABLE],
     [BaseError EXCEPT !.element = "e2"]}

InitDedup ==
    /\ dIn \in SeqUpTo(ErrPool, MaxErrLen)
    /\ dOut = <<>>
    /\ dDone = FALSE
    /\ fIn = <<>> /\ fOut = <<>> /\ fDone = FALSE
    /\ fs = [p \in Paths |-> NoFile]
    /\ InitCall
    /\ prevRun = NoRun

ApplyDedup ==
    /\ ~dDone
    /\ dOut' = remove_duplicate_errors(dIn)
    /\ dDone' = TRUE
    /\ UNCHANGED <<fs, pc, new_doc, passErrors, all_errors, result, passesDone, raised,
                   wroteReport, savedOut, commentsCalled, attempted, failed,
                   prevRun, dIn, fIn, fOut, fDone>>

NextDedup == ApplyDedup

SpecDedup == InitDedup /\ [][NextDedup]_vars

----------------------------------------------------------------------------
\* Heading numbering: the part of check_headings_formatting that an
\* accepted heading reaches (bold, matching the heading pattern, at most
\* three levels, right font size, no terminal punctuation).

MaxHeadingLevel == 3

\* An accepted heading: its text and the number_parts parsed from it.
Heading(text, number_parts) == [text |-> text, number_parts |-> number_parts]

HeadingSet ==
    {Heading("1 Title", <<1>>), Heading("2 Title", <<2>>),
     Heading("1.1 Title", <<1, 1>>), Heading("1.2 Title", <<1, 2>>),
     Heading("1.3 Title", <<1, 3>>), Heading("2.1 Title", <<2, 1>>),
     Heading("1.1.1 Title", <<1, 1, 1>>)}

\* last_heading_numbers as constructed: level -> number parts.
InitialHeadingNumbers == [l \in 1..MaxHeadingLevel |-> [k \in 1..l |-> 0]]

\* s[:n] and s[:-1] of a list, and its last item.
Prefix(s, n) == SubSeq(s, 1, IF n < Len(s) THEN n ELSE Len(s))
ButLast(s) == SubSeq(s, 1, Len(s) - 1)
LastOf(s) == s[Len(s)]

\* The parent levels at which the recorded number differs from the
\* heading's own prefix, in the order of the loop.
RECURSIVE ParentErrors(_, _, _, _, _)
ParentErrors(last, h, i, parent_level, errors) ==
    IF parent_level >= Len(h.number_parts) THEN errors
    ELSE LET parent_parts ==
                 IF parent_level \in DOMAIN last THEN last[parent_level] ELSE <<>>
         IN ParentErrors(last, h, i, parent_level + 1,
                IF Prefix(parent_parts, parent_level)
                       # Prefix(h.number_parts, parent_level)
                THEN add_error(errors, Msg("headingParentSequence", <<>>),
                               ParaElem(h), <<i>>, PARAGRAPH)
                ELSE errors)

\* The check of the heading's own number once its parents agree.
current_number_no_restart(last_parts, h, i, errors) ==
    LET number_parts == h.number_parts IN
    IF ButLast(number_parts) = ButLast(last_parts)
       /\ LastOf(number_parts) # LastOf(last_parts) + 1
    THEN add_error(errors,
                   Msg("headingSequence",
                       <<Append(ButLast(last_parts), LastOf(last_parts) + 1)>>),
                   ParaElem(h), <<i>>, PARAGRAPH)
    ELSE errors

current_number(last_parts, h, i, errors) ==
    LET number_parts == h.number_parts IN
    IF ButLast(number_parts) = ButLast(last_parts)
       /\ LastOf(number_parts) # LastOf(last_parts) + 1
    THEN add_error(errors,
                   Msg("headingSequence",
                       <<Append(ButLast(last_parts), LastOf(last_parts) + 1)>>),
                   ParaElem(h), <<i>>, PARAGRAPH)
    ELSE IF ButLast(number_parts) # ButLast(last_parts)
            /\ LastOf(number_parts) # 1
    THEN add_error(errors,
                   Msg("subheadingFromOne", <<Append(ButLast(number_parts), 1)>>),
                   ParaElem(h), <<i>>, PARAGRAPH)
    ELSE errors

\* last_heading_numbers after the heading: its level is recorded and the
\* deeper levels are deleted.
update_last_heading_numbers(last, number_parts) ==
    LET level == Len(number_parts) IN
    [l \in {d \in DOMAIN last : d < level} \cup {level} |->
        IF l = level THEN number_parts ELSE last[l]]

\* One accepted heading at paragraph index i.
heading_numbering(last, h, i, errors) ==
    LET level == Len(h.number_parts)
        last_parts == IF level \in DOMAIN last THEN last[level]
                      ELSE [k \in 1..level |-> 0]
        withParents == ParentErrors(last, h, i, 1, errors)
    IN [errors |-> IF withParents = errors
                   THEN current_number(last_parts, h, i, errors)
                   ELSE withParents,
        last |-> update_last_heading_numbers(last, h.number_parts)]

\* The loop over the paragraphs of a document made of accepted headings.
RECURSIVE HeadingScan(_, _, _, _)
HeadingScan(hs, k, last, errors) ==
    IF k > Len(hs) THEN errors
    ELSE LET r == heading_numbering(last, hs[k], k - 1, errors)
         IN HeadingScan(hs, k + 1, r.last, r.errors)

InitOther ==
    /\ fDone = FALSE
    /\ dIn = <<>> /\ dOut = <<>> /\ dDone = FALSE
    /\ fs = [p \in Paths |-> NoFile]
    /\ InitCall
    /\ prevRun = NoRun

InitPass == fOut = <<>> /\ InitOther

callVars ==
    <<fs, pc, new_doc, passErrors, all_errors, result, passesDone, raised,
      wroteReport, savedOut, commentsCalled, attempted, failed, prevRun,
      dIn, dOut, dDone>>

InitHeadings == fIn \in SeqUpTo(HeadingSet, MaxHeadings) /\ InitPass

ApplyHeadings ==
    /\ ~fDone
    /\ fOut' = HeadingScan(fIn, 1, InitialHeadingNumbers, <<>>)
    /\ fDone' = TRUE
    /\ UNCHANGED <<callVars, fIn>>

NextHeadings == ApplyHeadings

SpecHeadings == InitHeadings /\ [][NextHeadings]_vars

----------------------------------------------------------------------------
\* The terminal punctuation of one ordinary list group.

\* What the rule reads of an item: the last character of its content ("a"
\* stands for a letter) and whether it looks like a heading.
ItemSet == [end : {",", ";", ".", "a"}, potential_heading : BOOLEAN]

\* The document made of the items of the group, each with its own text.
ItemDoc(items) ==
    [paragraphs |->
        [k \in DOMAIN items |->
            Para("Item " \o ToString(k) \o items[k].end,
                 TRUE, FALSE, FALSE, TRUE, {})],
     tables |-> <<>>, numbering |-> "ok", hl |-> {}, comments |-> <<>>]

ItemGroup(items) ==
    [k \in DOMAIN items |->
        GroupItem(k, items[k].end, items[k].potential_heading)]

InitListEnds == fIn \in SeqUpTo(ItemSet, MaxItems) \ {<<>>} /\ InitPass

ApplyListEnds ==
    /\ ~fDone
    /\ fOut' = terminal_punctuation(ItemDoc(fIn), ItemGroup(fIn), 1,
                                    NoEndChar, NoOut).errors
    /\ fDone' = TRUE
    /\ UNCHANGED <<callVars, fIn>>

NextListEnds == ApplyListEnds

SpecListEnds == InitListEnds /\ [][NextListEnds]_vars

----------------------------------------------------------------------------
\* The caption passes over documents made of headings, appendix markers
\* and captions.

OtherKind(what) == IF what = "table" THEN "image" ELSE "table"

CaptionParaSet(what) ==
    {SeqCaption(what, 1), SeqCaption(what, 2),
     YxCaption(what, 1, 1), YxCaption(what, 1, 2), YxCaption(what, 2, 1),
     AppCaption(what, "A", 1), AppCaption(what, "A", 2),
     AppCaption(what, "B", 1),
     HeadingPara(1), HeadingPara(2),
     AppendixPara("A", TRUE), AppendixPara("B", TRUE),
     AppendixPara("Yo", FALSE),
     YxCaption(OtherKind(what), 1, 1)}

CaptionDoc(ps) ==
    [paragraphs |-> ps, tables |-> <<>>, numbering |-> "ok", hl |-> {},
     comments |-> <<>>]

InitCaptions ==
    /\ \E what \in {"table", "image"} :
         \E ps \in SeqUpTo(CaptionParaSet(what), MaxCaptionParas) :
            fIn = [what |-> what, doc |-> CaptionDoc(ps)]
    /\ InitPass

ApplyTableCaptions ==
    /\ ~fDone
    /\ fIn.what = "table"
    /\ fOut' = check_table_formatting(fIn.doc).errors
    /\ fDone' = TRUE
    /\ UNCHANGED <<callVars, fIn>>

ApplyImageCaptions ==
    /\ ~fDone
    /\ fIn.what = "image"
    /\ fOut' = check_image_formatting(fIn.doc).errors
    /\ fDone' = TRUE
    /\ UNCHANGED <<callVars, fIn>>

NextCaptions == ApplyTableCaptions \/ ApplyImageCaptions

SpecCaptions == InitCaptions /\ [][NextCaptions]_vars

----------------------------------------------------------------------------
\* The structural pass over documents made of required titles, appendix
\* headers and body text.

StructureParaSet ==
    {TitlePara(ExpectedElements[k]) : k \in DOMAIN ExpectedElements}
    \cup {AppendixPara("A", TRUE), AppendixPara("B", TRUE),
          AppendixPara("Yo", FALSE), AppendixPara("AB", FALSE),
          Para("Text.", FALSE, FALSE, FALSE, TRUE, {})}

InitStructure ==
    /\ \E ps \in SeqUpTo(StructureParaSet, MaxStructureParas) :
          fIn = CaptionDoc(ps)
    /\ InitPass

ApplyStructure ==
    /\ ~fDone
    /\ fOut' = check_structural_elements(fIn).errors
    /\ fDone' = TRUE
    /\ UNCHANGED <<callVars, fIn>>

NextStructure == ApplyStructure

SpecStructure == InitStructure /\ [][NextStructure]_vars

----------------------------------------------------------------------------
\* The table pass over documents with captions, continuations and endings.

TableParaSet ==
    {SeqCaption("table", 1), SeqCaption("table", 2),
     ContinuationPara("1", ""), ContinuationPara("2", ""),
     EndingPara("1", ""), EndingPara("2", ""),
     Para("Text.", FALSE, FALSE, FALSE, TRUE, {})}

\* doc.paragraphs.index(continuation_tracker['paragraph']): the list holds
\* proxy objects built by this access of doc.paragraphs, so the search by
\* == finds the position when the proxies compare by their XML element
\* and raises ValueError when they compare by identity.
paragraph_index_outcomes == {"position", "ValueError"}

\* What a call of check_table_formatting can give: the errors, or the
\* exception of the lookup when a continuation is left open.
check_table_formatting_outcomes(doc) ==
    LET st == TableCaptionScan(doc, 1, InitialCaptionState)
    IN {IF o = "ValueError" /\ unclosed_continuations(doc, st) # <<>>
        THEN [raised |-> TRUE, errors |-> <<>>]
        ELSE [raised |-> FALSE, errors |-> check_table_formatting(doc).errors] :
          o \in paragraph_index_outcomes}

InitTables ==
    /\ \E ps \in SeqUpTo(TableParaSet, MaxCaptionParas) :
         \E ts \in SeqUpTo(TableSet, MaxTables) :
            fIn = [CaptionDoc(ps) EXCEPT !.tables = ts]
    /\ InitPass

ApplyTables ==
    /\ ~fDone
    /\ fOut' \in check_table_formatting_outcomes(fIn)
    /\ fDone' = TRUE
    /\ UNCHANGED <<callVars, fIn>>

NextTables == ApplyTables

SpecTables == InitTables /\ [][NextTables]_vars

----------------------------------------------------------------------------
\* extract_list_items, the counters of the Word-numbered items, paragraph
\* by paragraph.  fIn holds the paragraphs still to be read; fOut holds
\* the local counters, whether current is non-empty, the paragraphs read
\* and the number mk gives for the level of the last numbered one.

NumRef(nid, lvl) == [kind |-> "num", nid |-> nid, lvl |-> lvl]
TextRef == [kind |-> "text", nid |-> "", lvl |-> 0]

NumIds == {"1", "2"}
Levels == 0..2
RefSet == {NumRef(n, l) : n \in NumIds, l \in Levels} \cup {TextRef}

\* counters[key] = counters.get(key, 0) + 1, then the deeper levels of
\* the same numId are popped.
counters_step_all_lists(counters, nid, lvl) ==
    LET c1 == DictPut(counters, <<nid, lvl>>, DictGet(counters, <<nid, lvl>>, 0) + 1)
    IN [k \in {x \in DOMAIN c1 : ~(x[2] > lvl)} |-> c1[k]]

counters_step(counters, nid, lvl) ==
    LET c1 == DictPut(counters, <<nid, lvl>>, DictGet(counters, <<nid, lvl>>, 0) + 1)
    IN [k \in {x \in DOMAIN c1 : ~(x[1] = nid /\ x[2] > lvl)} |-> c1[k]]

\* mk(i_lvl) for a decimal level.
mk(counters, nid, i_lvl) == DictGet(counters, <<nid, i_lvl>>, 1)

InitialExtraction ==
    [counters |-> EmptyDict, current |-> FALSE, read |-> <<>>, rendered |-> 0]

InitCounters ==
    /\ fIn \in SeqUpTo(RefSet, MaxListRefs)
    /\ fOut = InitialExtraction
    /\ InitOther

\* A paragraph with w:numPr.
ExtractNumbered ==
    /\ fIn # <<>>
    /\ Head(fIn).kind = "num"
    /\ LET p == Head(fIn)
           c == counters_step(fOut.counters, p.nid, p.lvl)
       IN fOut' = [counters |-> c, current |-> TRUE,
                   read |-> Append(fOut.read, p),
                   rendered |-> mk(c, p.nid, p.lvl)]
    /\ fIn' = Tail(fIn)
    /\ fDone' = (Tail(fIn) = <<>>)
    /\ UNCHANGED callVars

\* A paragraph of plain text without w:numPr: it closes the current group
\* and clears the counters.
ExtractText ==
    /\ fIn # <<>>
    /\ Head(fIn).kind = "text"
    /\ fOut' = [counters |-> IF fOut.current THEN EmptyDict ELSE fOut.counters,
                current |-> FALSE,
                read |-> Append(fOut.read, Head(fIn)),
                rendered |-> 0]
    /\ fIn' = Tail(fIn)
    /\ fDone' = (Tail(fIn) = <<>>)
    /\ UNCHANGED callVars

NextCounters == ExtractNumbered \/ ExtractText

SpecCounters == InitCounters /\ [][NextCounters]_vars

----------------------------------------------------------------------------
\* build_list_tree and check_numbering_order.  A group is a sequence of
\* prefixes; the paragraph of an item is its position in the group.

\* A prefix: its numbers (re.findall(r'\d+', prefix)) and its last
\* character.
ListPrefix(numbers, suffix) == [numbers |-> numbers, suffix |-> suffix]

RootPrefix == ListPrefix(<<>>, "")

\* The group items: numbered prefixes of one to three levels and a bullet.
PrefixSet ==
    {ListPrefix(n, ".") : n \in {<<1>>, <<2>>, <<1, 1>>, <<1, 2>>, <<2, 1>>,
                              <<1, 1, 1>>, <<1, 2, 1>>}}
    \cup {ListPrefix(<<>>, "-")}

\* ListNode; parent is the position of the parent in the node list, 0 for
\* the root.
ListNode(prefix, level, numbers, paragraph, parent) ==
    [prefix |-> prefix, level |-> level, numbers |-> numbers,
     paragraph |-> paragraph, parent |-> parent]

\* build_list_tree, one item of the group: the node is appended to the
\* children of current_parents.get(level - 1, root), becomes the current
\* parent of its level, and the deeper current parents are deleted.  The
\* local counters are never read by the callers and are left out.
tree_item(group, g, t) ==
    LET nums == group[g].numbers
        level == Len(nums) - 1
        parent == DictGet(t.current_parents, level - 1, 0)
        node == ListNode(group[g], level, nums, g, parent)
        kept == {l \in DOMAIN t.current_parents \cup {level} : l <= level}
    IN IF nums = <<>> THEN t
       ELSE [nodes |-> Append(t.nodes, node),
             current_parents |->
                 [l \in kept |-> IF l = level THEN Len(t.nodes) + 1
                                 ELSE t.current_parents[l]]]

RECURSIVE TreeScan(_, _, _)
TreeScan(group, g, t) ==
    IF g > Len(group) THEN t
    ELSE With(t, LAMBDA v : TreeScan(group, g + 1, tree_item(group, g, v)))

\* build_list_tree: the nodes in the order of their creation.
build_list_tree(group) ==
    TreeScan(group, 1, [nodes |-> <<>>, current_parents |-> (-1 :> 0)]).nodes

\* node.children, in the order of their insertion.
children(nodes, k) ==
    SelectSeq([j \in DOMAIN nodes |-> j], LAMBDA j : nodes[j].parent = k)

\* parent_number None.
NoParentNumber == -1

\* One error tuple of check_numbering_order.
OrderError(position, node, expected_nums) ==
    [position |-> position, got |-> node.prefix,
     expected |-> ListPrefix(expected_nums, node.prefix.suffix),
     paragraph |-> node.paragraph]

\* traverse, the checks of one node other than the root.
check_node(node, parent_number, parent_prefix, acc) ==
    LET actual == node.numbers[node.level + 1]
        counter_key == <<node.level, parent_prefix>>
        expected == DictGet(acc.level_counters, counter_key, 0) + 1
        e1 == IF actual # expected
              THEN <<OrderError(acc.position, node,
                                Append(SubSeq(node.numbers, 1, node.level),
                                       expected))>>
              ELSE <<>>
        e2 == IF node.level > 0 /\ parent_number = NoParentNumber
              THEN <<OrderError(acc.position, node, node.numbers)>>
              ELSE IF node.level > 0 /\ node.numbers[1] # parent_number
              THEN <<OrderError(acc.position, node,
                                <<parent_number>> \o Tail(node.numbers))>>
              ELSE <<>>
    IN [acc EXCEPT !.level_counters = DictPut(@, counter_key, expected),
                   !.errors = @ \o e1 \o e2]

RECURSIVE traverse(_, _, _, _, _)
RECURSIVE traverse_children(_, _, _, _, _)
\* traverse, a node other than the root, position already advanced.
traverse(nodes, k, parent_number, parent_prefix, acc) ==
    LET node == nodes[k]
        new_parent_number == IF node.level = 0 THEN node.numbers[1]
                             ELSE parent_number
        new_parent_prefix == IF node.level < 2 THEN node.prefix
                             ELSE parent_prefix
    IN traverse_children(nodes, children(nodes, k), new_parent_number,
                         new_parent_prefix,
                         check_node(node, parent_number, parent_prefix, acc))

\* for child in node.children: position += 1; traverse(child, ...).
traverse_children(nodes, kids, parent_number, parent_prefix, acc) ==
    IF kids = <<>> THEN acc
    ELSE With(acc,
              LAMBDA a :
                traverse_children(nodes, Tail(kids), parent_number, parent_prefix,
                    traverse(nodes, Head(kids), parent_number, parent_prefix,
                             [a EXCEPT !.position = @ + 1])))

\* check_numbering_order(root).
check_numbering_order(nodes) ==
    traverse_children(nodes, children(nodes, 0), NoParentNumber, RootPrefix,
                      [position |-> 0, level_counters |-> EmptyDict,
                       errors |-> <<>>]).errors

InitListTree ==
    /\ fIn \in SeqUpTo(PrefixSet, MaxTreeItems)
    /\ InitPass

\* detect_bad_order_tree on one group.
ApplyListTree ==
    /\ ~fDone
    /\ fOut' = [nodes |-> build_list_tree(fIn),
                errors |-> check_numbering_order(build_list_tree(fIn))]
    /\ fDone' = TRUE
    /\ UNCHANGED <<callVars, fIn>>

NextListTree == ApplyListTree

SpecListTree == InitListTree /\ [][NextListTree]_vars

----------------------------------------------------------------------------
\* validate_lists, the choice of the groups whose numbering order is
\* checked.  An item of a group is Word-numbered with a decimal format,
\* Word-numbered with the bullet format, or typed by hand ("1. text",
\* no w:numPr).

OrderItem(kind, numbers) == [kind |-> kind, numbers |-> numbers]

OrderItemSet ==
    {OrderItem("decimal", <<1>>), OrderItem("decimal", <<2>>),
     OrderItem("bullet", <<>>),
     OrderItem("manual", <<1>>), OrderItem("manual", <<3>>)}

\* The loop that leaves is_bullet_group True: an item without w:numPr is
\* skipped, an item with the bullet format does not clear the flag.
is_bullet_group(group) ==
    \A g \in DOMAIN group : group[g].kind \in {"manual", "bullet"}

numbered_groups(groups) ==
    SelectSeq(groups, LAMBDA group : ~is_bullet_group(group))

\* detect_bad_order_tree: the errors of the groups, one group after the
\* other.
detect_bad_order_tree(grouped_items) ==
    Flatten([k \in DOMAIN grouped_items |->
        check_numbering_order(build_list_tree(
            [g \in DOMAIN grouped_items[k] |->
                ListPrefix(grouped_items[k][g].numbers, ".")]))])

InitListOrder ==
    /\ fIn \in SeqUpTo(OrderItemSet, MaxTreeItems)
    /\ InitPass

ApplyListOrder ==
    /\ ~fDone
    /\ fOut' = [numbered_groups |-> numbered_groups(<<fIn>>),
                numbering_errors |->
                    detect_bad_order_tree(numbered_groups(<<fIn>>))]
    /\ fDone' = TRUE
    /\ UNCHANGED <<callVars, fIn>>

NextListOrder == ApplyListOrder

SpecListOrder == InitListOrder /\ [][NextListOrder]_vars

----------------------------------------------------------------------------
\* validate_resource_list, the numbering checks of one bibliography
\* group.  A prefix is the sequence of its characters.

DigitChars == <<"0", "1", "2", "3", "4", "5", "6", "7", "8", "9">>

\* str(n), as a sequence of characters.
RECURSIVE Str(_)
Str(n) == IF n < 10 THEN <<DigitChars[n + 1]>>
          ELSE Append(Str(n \div 10), DigitChars[(n % 10) + 1])

\* s.startswith(t).
StartsWith(s, t) == Len(s) >= Len(t) /\ SubSeq(s, 1, Len(t)) = t

\* re.match(r'\d+', prefix).
MatchesDigits(prefix) == prefix # <<>> /\ prefix[1] \in Range(DigitChars)

ResourcePrefixSet ==
    {<<"1", ".">>, <<"2", ".">>, <<"3", ".">>, <<"1", "0", ".">>,
     <<"1", ".", "1", ".">>, <<"a", ")">>}

\* The two numbering checks of item ind (0-based) of a group.
resource_numbering(prefix, ind) ==
    LET expected_number == ind + 1
        e1 == IF ~MatchesDigits(prefix)
              THEN <<[item |-> ind, id |-> "resourceFormat"]>> ELSE <<>>
        e2 == IF ~StartsWith(prefix, Str(expected_number))
              THEN <<[item |-> ind, id |-> "resourceSequence"]>> ELSE <<>>
    IN e1 \o e2

InitResourceNumbers ==
    /\ fIn \in SeqUpTo(ResourcePrefixSet, MaxResourceItems)
    /\ InitPass

ApplyResourceNumbers ==
    /\ ~fDone
    /\ fOut' = Flatten([k \in DOMAIN fIn |-> resource_numbering(fIn[k], k - 1)])
    /\ fDone' = TRUE
    /\ UNCHANGED <<callVars, fIn>>

NextResourceNumbers == ApplyResourceNumbers

SpecResourceNumbers == InitResourceNumbers /\ [][NextResourceNumbers]_vars

----------------------------------------------------------------------------
\* extract_list_items, the two collections.  A paragraph is the
\* bibliography title, plain text, text that starts like a numbered
\* heading ("2 Text"), a Word-numbered decimal item, a Word-numbered
\* bullet item, or an item typed by hand ("1. text").

GroupParaKinds == {"title", "text", "heading_text", "decimal", "bullet", "manual"}

ListKinds == {"decimal", "bullet", "manual"}

InitialGroups ==
    [is_resource_section |-> FALSE, current |-> <<>>, groups |-> <<>>,
     resource_groups |-> <<>>]

\* current is appended to the collection is_resource_section selects.
flush(st) ==
    IF st.current = <<>> THEN st
    ELSE IF st.is_resource_section
    THEN [st EXCEPT !.resource_groups = Append(@, st.current), !.current = <<>>]
    ELSE [st EXCEPT !.groups = Append(@, st.current), !.current = <<>>]

\* The body of the loop for paragraph i of kind k.
extract_paragraph(k, i, st) ==
    CASE k = "title" ->
           [st EXCEPT !.is_resource_section = TRUE,
                      !.groups = IF st.current # <<>> THEN Append(@, st.current)
                                 ELSE @,
                      !.current = <<>>]
      [] k = "heading_text" -> st
      [] k = "manual" -> [st EXCEPT !.current = Append(@, i)]
      [] k = "text" ->
           IF st.current # <<>>
           THEN [flush(st) EXCEPT !.is_resource_section = FALSE]
           ELSE st
      [] k = "bullet" ->
           IF st.is_resource_section THEN st
           ELSE [st EXCEPT !.current = Append(@, i)]
      [] k = "decimal" -> [st EXCEPT !.current = Append(@, i)]

RECURSIVE ExtractScan(_, _, _)
ExtractScan(ps, i, st) ==
    IF i > Len(ps) THEN flush(st)
    ELSE With(st, LAMBDA v : ExtractScan(ps, i + 1, extract_paragraph(ps[i], i, v)))

InitGroups ==
    /\ fIn \in SeqUpTo(GroupParaKinds, MaxGroupParas)
    /\ InitPass

ApplyGroups ==
    /\ ~fDone
    /\ fOut' = ExtractScan(fIn, 1, InitialGroups)
    /\ fDone' = TRUE
    /\ UNCHANGED <<callVars, fIn>>

NextGroups == ApplyGroups

SpecGroups == InitGroups /\ [][NextGroups]_vars

----------------------------------------------------------------------------
\* Code paragraphs: check_structural_elements puts a paragraph into
\* code_paragraphs by the font of its runs.  A paragraph is given by its kind
\* (a listing caption, an appendix header, other text, or empty) and by
\* whether one of its non-empty runs is set in Courier New.

MaxCodeParas == 3

CodePara(kind, courier) == [kind |-> kind, courier |-> courier]

CodeParaSet ==
    {CodePara("listing", FALSE), CodePara("appendix", FALSE),
     CodePara("text", TRUE), CodePara("text", FALSE),
     CodePara("empty", FALSE)}

\* any(run.font.name == "Courier New" for run in p.runs if run.text.strip())
is_code(p) == p.courier

\* The paragraph after a structural one, when it is set in Courier New.
code_after_listing(ps, i) ==
    IF ps[i].kind = "listing" /\ i + 1 <= Len(ps) /\ is_code(ps[i + 1])
    THEN <<i + 1>> ELSE <<>>

\* Any other paragraph set in Courier New.
code_elsewhere(ps, i) ==
    IF is_code(ps[i]) /\ ps[i].kind # "listing" THEN <<i>> ELSE <<>>

\* The positions the loop appends to code_paragraphs, in order.
RECURSIVE CodeScan(_, _)
CodeScan(ps, i) ==
    IF i > Len(ps) THEN <<>>
    ELSE IF ps[i].kind \in {"empty", "appendix"} THEN CodeScan(ps, i + 1)
    ELSE code_after_listing(ps, i) \o code_elsewhere(ps, i) \o CodeScan(ps, i + 1)

InitCode ==
    /\ fIn \in SeqUpTo(CodeParaSet, MaxCodeParas)
    /\ InitPass

ApplyCode ==
    /\ ~fDone
    /\ fOut' = CodeScan(fIn, 1)
    /\ fDone' = TRUE
    /\ UNCHANGED <<callVars, fIn>>

NextCode == ApplyCode

SpecCode == InitCode /\ [][NextCode]_vars

----------------------------------------------------------------------------
\* The paragraphs check_general_formatting checks as body text.  A paragraph
\* is given by the shape of its text, by the collection an earlier pass put
\* it into ("none" when no pass did), and by its font.
\*   digit_start    text that matches ^\d+(?:\.\d+)*\s+.*
\*   caption_start  text that starts with 'Таблица ', 'Рисунок ', 'Листинг ',
\*                  'Продолжение таблицы ' or 'Окончание таблицы '
\*   title_start    text that starts with 'Введение', 'Заключение',
\*                  'Перечень использованных информационных ресурсов' or
\*                  'Приложение '

MaxGeneralParas == 2

GeneralPara(shape, collection, courier) ==
    [shape |-> shape, collection |-> collection, courier |-> courier]

GeneralParaSet ==
    {GeneralPara("empty", "none", FALSE),
     GeneralPara("plain", "none", FALSE),
     GeneralPara("plain", "list", FALSE),
     GeneralPara("plain", "code", TRUE),
     GeneralPara("digit_start", "none", FALSE),
     GeneralPara("digit_start", "heading", FALSE),
     GeneralPara("title_start", "structural", FALSE),
     GeneralPara("title_start", "none", FALSE),
     GeneralPara("caption_start", "caption", FALSE),
     GeneralPara("caption_start", "listing", FALSE)}

\* The collections the caller hands over: captions, headings, lists,
\* structural elements with the appendix headers, and code.
GeneralExcluded ==
    {"caption", "heading", "list", "structural", "appendix", "code"}

\* The paragraph gets past every skip of the loop.
general_checked(p) ==
    /\ p.shape # "empty"
    /\ p.collection \notin GeneralExcluded
    /\ p.shape # "digit_start"
    /\ p.shape \notin {"caption_start", "title_start"}
    /\ ~p.courier

\* The positions checked against the body-text rules.
body_checked(ps) == {i \in DOMAIN ps : general_checked(ps[i])}

InitGeneral ==
    /\ fIn \in SeqUpTo(GeneralParaSet, MaxGeneralParas)
    /\ InitPass

ApplyGeneral ==
    /\ ~fDone
    /\ fOut' = body_checked(fIn)
    /\ fDone' = TRUE
    /\ UNCHANGED <<callVars, fIn>>

NextGeneral == ApplyGeneral

SpecGeneral == InitGeneral /\ [][NextGeneral]_vars

----------------------------------------------------------------------------
\* The blank lines around a heading.  A document is a list of paragraph
\* kinds: an accepted heading, a blank paragraph, or other text.

MaxSpacingParas == 4

SpacingKinds == {"heading", "blank", "text"}

\* doc.paragraphs[j] for the position p = j + 1: a negative j counts from
\* the end of the list.
list_item(ps, p) == IF p >= 1 THEN ps[p] ELSE ps[Len(ps) + p]

\* i - 2 < len(doc.paragraphs) holds for every i; the two reads follow.
has_two_empty_lines_before(ps, i) ==
    /\ i - 2 <= Len(ps)
    /\ list_item(ps, i - 1) = "blank"
    /\ list_item(ps, i - 2) = "blank"

has_two_empty_lines_after(ps, i) ==
    /\ i + 2 <= Len(ps)
    /\ ps[i + 1] = "blank"
    /\ ps[i + 2] = "blank"

\* The spacing errors of the heading at position i.
spacing_errors(ps, i) ==
    (IF has_two_empty_lines_before(ps, i) THEN {} ELSE {"spacingBefore"})
    \cup (IF has_two_empty_lines_after(ps, i) THEN {} ELSE {"spacingAfter"})

InitSpacing ==
    /\ fIn \in SeqUpTo(SpacingKinds, MaxSpacingParas)
    /\ InitPass

ApplySpacing ==
    /\ ~fDone
    /\ fOut' = [i \in {p \in DOMAIN fIn : fIn[p] = "heading"} |->
                   spacing_errors(fIn, i)]
    /\ fDone' = TRUE
    /\ UNCHANGED <<callVars, fIn>>

NextSpacing == ApplySpacing

SpecSpacing == InitSpacing /\ [][NextSpacing]_vars

----------------------------------------------------------------------------
\* Heading candidates: the part of check_headings_formatting that a bold
\* paragraph matching the heading pattern goes through.  A candidate has
\* its text, the number_parts parsed from it, is_heading (no run has a
\* size, or one has the size of its level) and punctuation_error (the
\* title of one or two sentences ends with a punctuation mark).

MaxCandidates == 4

Candidate(text, number_parts, is_heading, punctuation_error) ==
    [text |-> text, number_parts |-> number_parts,
     is_heading |-> is_heading, punctuation_error |-> punctuation_error]

CandidateSet ==
    {Candidate("1 Title", <<1>>, TRUE, FALSE),
     Candidate("2 Title", <<2>>, TRUE, FALSE),
     Candidate("3 Title", <<3>>, TRUE, FALSE),
     Candidate("4 Title", <<4>>, TRUE, FALSE),
     Candidate("1.1 Title", <<1, 1>>, TRUE, FALSE),
     Candidate("1.3 Title", <<1, 3>>, TRUE, FALSE),
     Candidate("1.4 Title", <<1, 4>>, TRUE, FALSE),
     Candidate("2 Small", <<2>>, FALSE, FALSE),
     Candidate("2 Title.", <<2>>, TRUE, TRUE),
     Candidate("1.1.1.1 Title", <<1, 1, 1, 1>>, TRUE, FALSE)}

\* The lists and the numbering state of the pass; numbers_after holds
\* last_heading_numbers as it is after each paragraph of the loop.
InitialCandidates ==
    [errors |-> <<>>, heading_paragraphs |-> <<>>, list_candidates |-> <<>>,
     last |-> InitialHeadingNumbers, numbers_after |-> <<>>]

\* A variant in which a candidate deeper than three levels is recorded in
\* last_heading_numbers.
deep_candidate_recorded(st, c, k) ==
    [st EXCEPT !.errors = add_error(@, Msg("headingDepth", <<c.number_parts>>),
                                    ParaElem(c), <<k - 1>>, PARAGRAPH),
               !.list_candidates = Append(@, k),
               !.last = update_last_heading_numbers(@, c.number_parts)]

\* level > 3: the error, list_candidates, continue.
deep_candidate(st, c, k) ==
    [st EXCEPT !.errors = add_error(@, Msg("headingDepth", <<c.number_parts>>),
                                    ParaElem(c), <<k - 1>>, PARAGRAPH),
               !.list_candidates = Append(@, k)]

\* The punctuation error of a candidate, if it has one.
punctuation_errors(c, k) ==
    IF c.punctuation_error
    THEN add_error(<<>>, Msg("headingPunctuation", <<>>), ParaElem(c),
                   <<k - 1>>, PARAGRAPH)
    ELSE <<>>

\* A variant in which a rejected candidate is recorded in
\* last_heading_numbers.
rejected_candidate_recorded(st, c, k) ==
    [st EXCEPT !.errors = add_error(@ \o punctuation_errors(c, k),
                                    Msg("headingNotFormatted", <<>>),
                                    ParaElem(c), <<k - 1>>, PARAGRAPH),
               !.list_candidates = Append(@, k),
               !.last = update_last_heading_numbers(@, c.number_parts)]

\* Not is_heading, or a punctuation error: the error, list_candidates
\* (the candidate is no Word list item), continue.
rejected_candidate(st, c, k) ==
    [st EXCEPT !.errors = add_error(@ \o punctuation_errors(c, k),
                                    Msg("headingNotFormatted", <<>>),
                                    ParaElem(c), <<k - 1>>, PARAGRAPH),
               !.list_candidates = Append(@, k)]

\* The candidate is appended to heading_paragraphs and its number checked
\* and recorded.
accepted_heading(st, c, k) ==
    With(heading_numbering(st.last, c, k - 1, st.errors),
         LAMBDA r : [st EXCEPT !.errors = r.errors,
                               !.heading_paragraphs = Append(@, k),
                               !.last = r.last])

\* The body of the loop for the candidate c at position k.
candidate_step(st, c, k) ==
    IF Len(c.number_parts) > MaxHeadingLevel THEN deep_candidate(st, c, k)
    ELSE IF c.is_heading /\ ~c.punctuation_error THEN accepted_heading(st, c, k)
    ELSE rejected_candidate(st, c, k)

RECURSIVE CandidateScan(_, _, _)
CandidateScan(cs, k, st) ==
    IF k > Len(cs) THEN st
    ELSE With(candidate_step(st, cs[k], k),
              LAMBDA v : CandidateScan(cs, k + 1,
                             [v EXCEPT !.numbers_after = Append(@, v.last)]))

InitCandidates ==
    /\ fIn \in SeqUpTo(CandidateSet, MaxCandidates)
    /\ InitPass

ApplyCandidates ==
    /\ ~fDone
    /\ fOut' = CandidateScan(fIn, 1, InitialCandidates)
    /\ fDone' = TRUE
    /\ UNCHANGED <<callVars, fIn>>

NextCandidates == ApplyCandidates

SpecCandidates == InitCandidates /\ [][NextCandidates]_vars

----------------------------------------------------------------------------
\* The index of a list error: the last item of a list group does not end
\* with a full stop, and the error is given the index that
\* get_paragraph_index_by_content finds for its paragraph.

MaxLocateParas == 3

LocatePara(text, style) == [text |-> text, style |-> style]

LocateParaSet ==
    {LocatePara("item", "Normal"), LocatePara("item", "List Paragraph"),
     LocatePara("other", "Normal"), LocatePara("other", "List Paragraph")}

\* The documents with the position of the faulty item.
LocateInputs ==
    {[paragraphs |-> ps, target |-> t] :
        <<ps, t>> \in {x \in SeqUpTo(LocateParaSet, MaxLocateParas)
                              \X (1..MaxLocateParas) : x[2] <= Len(x[1])}}

InitLocate ==
    /\ fIn \in LocateInputs
    /\ InitPass

ApplyLocate ==
    /\ ~fDone
    /\ fOut' = ListEndError([paragraphs |-> fIn.paragraphs],
                            GroupItem(fIn.target, NoEndChar, FALSE),
                            "listLastEnd", NoOut).errors
    /\ fDone' = TRUE
    /\ UNCHANGED <<callVars, fIn>>

NextLocate == ApplyLocate

SpecLocate == InitLocate /\ [][NextLocate]_vars

----------------------------------------------------------------------------
\* Properties.

Finished == pc = "done"

\* The key of the dedup law.
Tuple5(e) == <<e.type, e.message, e.paragraph_text, e.index, e.element_type>>

NoDuplicates(errors) ==
    \A i, j \in DOMAIN errors : i # j => Tuple5(errors[i]) # Tuple5(errors[j])

\* The position of the first record of xs with the key of e.
FirstPos(xs, e) == Min({j \in DOMAIN xs : Tuple5(xs[j]) = Tuple5(e)})

\* u holds each distinct record of xs once, in the order of first
\* occurrence in xs.
IsOrderedDedup(u, xs) ==
    /\ NoDuplicates(u)
    /\ {Tuple5(u[k]) : k \in DOMAIN u} = {Tuple5(xs[j]) : j \in DOMAIN xs}
    /\ \A k \in DOMAIN u : u[k] = xs[FirstPos(xs, u[k])]
    /\ \A k, l \in DOMAIN u : k < l => FirstPos(xs, u[k]) < FirstPos(xs, u[l])

\* The pass outputs in the order the function concatenates them.
PassesInOrder ==
    passErrors["structural"] \o passErrors["heading"] \o passErrors["list"]
    \o passErrors["table"] \o passErrors["image"] \o passErrors["general"]

\* The comments of the saved working copy are those of the records whose
\* add_comment call returned.
SavedWithComments ==
    /\ savedOut
    /\ fs[new_file_path] = DocxFile(new_doc)
    /\ Range(new_doc.comments) =
         {Comment(all_errors[k]) :
            k \in CommentablePositions(new_doc, all_errors) \ failed}

\* C1: with no file at the input path the call returns false and leaves
\* both the output path and the report path without a file.
C1_MissingInputCreatesNothing ==
    (Finished /\ ~Exists(file_path)) =>
        /\ result = "False"
        /\ ~Exists(new_file_path)
        /\ ~Exists(json_file_path)

C1_Witness == Finished /\ ~Exists(file_path) /\ result = "False"

C3_CleanDocument ==
    (Finished /\ passesDone /\ \A n \in PassNames : passErrors[n] = <<>>) =>
        /\ all_errors = <<>>
        /\ result = "True"
        /\ ~commentsCalled
        /\ savedOut
        /\ fs[new_file_path].kind = "docx"
        /\ fs[new_file_path].doc.comments = <<>>

C3_Witness ==
    /\ Finished /\ passesDone /\ \A n \in PassNames : passErrors[n] = <<>>
    /\ savedOut

\* C4 as stated: once the passes completed, the report is always written,
\* also with an empty list, and the working copy is always saved again.
C4_AlwaysWritesReport ==
    (Finished /\ passesDone) =>
        /\ wroteReport
        /\ fs[json_file_path] = JsonFile(all_errors)
        /\ savedOut

\* C4 amended: once the passes completed, the working copy is always
\* saved again, and the report is written exactly when the list is not
\* empty; with an empty list the report path is left as it was.
C4_SavesAlwaysReportsIfErrors ==
    (Finished /\ passesDone) =>
        /\ savedOut
        /\ fs[new_file_path] = DocxFile(new_doc)
        /\ wroteReport <=> all_errors # <<>>
        /\ all_errors # <<>> => fs[json_file_path] = JsonFile(all_errors)
        /\ all_errors = <<>> => ~Exists(json_file_path)

C4_Witness ==
    /\ Finished /\ passesDone /\ all_errors = <<>>
    /\ savedOut /\ ~wroteReport

\* C5: the list returned by remove_duplicate_errors has no two records
\* with the same (type, message, paragraph_text, index, element_type).
C5_DedupLaw == dDone => NoDuplicates(dOut)

C5_Witness ==
    /\ dDone
    /\ Len(dOut) >= 2
    /\ Len(dOut) < Len(dIn)
    /\ \E i, j \in DOMAIN dIn :
         i # j /\ Tuple5(dIn[i]) = Tuple5(dIn[j]) /\ dIn[i] # dIn[j]

\* C6: two calls on the same unmodified input whose passes completed end
\* with the same deduplicated list.
C6_Deterministic ==
    (Finished /\ passesDone /\ prevRun.ran /\ prevRun.passesDone) =>
        all_errors = prevRun.errors

\* C7: no step changes the file at the input path; a step changes only
\* the working copy or the report.
C7_InputUntouched ==
    [][/\ fs'[file_path] = fs[file_path]
       /\ \A p \in Paths : fs'[p] # fs[p] => p \in {new_file_path, json_file_path}]_vars

C7_Witness ==
    /\ Finished /\ savedOut /\ commentsCalled
    /\ new_doc.hl # {} /\ new_doc.comments # <<>>
    /\ fs[new_file_path] # fs[file_path]

\* C8: an exception raised inside a pass is caught: the call returns
\* false, and no call ends by raising.
C8_ExceptionCaught ==
    /\ result # "raised"
    /\ (Finished /\ raised # "none") => result = "False"

C8_Witness == Finished /\ raised = "unexpected" /\ result = "False"

\* C9: with the numbering definitions absent or malformed, and no
\* unexpected exception, the passes complete and the call returns true.
C9_NumberingNonFatal ==
    (/\ Finished
     /\ fs[new_file_path].kind = "docx"
     /\ fs[new_file_path].doc.numbering \in {"absent", "malformed"}
     /\ raised # "unexpected") =>
        /\ passesDone
        /\ result = "True"

HLevel(hs, j) == Len(hs[j].number_parts)

LastSeen(hs, k, p) ==
    LET S == {j \in 1..(k - 1) :
                 /\ HLevel(hs, j) = p
                 /\ \A m \in (j + 1)..(k - 1) : HLevel(hs, m) >= p}
    IN IF S = {} THEN 0 ELSE Max(S)

ParentsMatch(hs, k) ==
    \A p \in 1..(HLevel(hs, k) - 1) :
        LET j == LastSeen(hs, k, p)
        IN j # 0 /\ hs[j].number_parts = Prefix(hs[k].number_parts, p)

ExpectedFinal(hs, k) ==
    LET j == LastSeen(hs, k, HLevel(hs, k))
    IN IF j # 0 /\ ButLast(hs[j].number_parts) = ButLast(hs[k].number_parts)
       THEN LastOf(hs[j].number_parts) + 1
       ELSE 1

SequenceErrorsAt(errors, i) ==
    {e \in DOMAIN errors :
        /\ errors[e].index = i
        /\ errors[e].message.id \in {"headingSequence", "subheadingFromOne"}}

\* C11: a heading whose parents match the last seen headings of the
\* shallower levels gets a numbering error exactly when its final
\* component is not its previous sibling's plus one (same parent) or not 1
\* (new parent); the error is single and names the expected number.
C11_HeadingContinuity ==
    fDone =>
        \A k \in DOMAIN fIn :
            ParentsMatch(fIn, k) =>
                LET number_parts == fIn[k].number_parts
                    found == SequenceErrorsAt(fOut, k - 1)
                IN IF LastOf(number_parts) = ExpectedFinal(fIn, k)
                   THEN found = {}
                   ELSE /\ Cardinality(found) = 1
                        /\ \A e \in found :
                              fOut[e].message.args =
                                 <<Append(ButLast(number_parts),
                                          ExpectedFinal(fIn, k))>>

C11_Witness ==
    /\ fDone
    /\ [k \in DOMAIN fIn |-> fIn[k].number_parts] = <<<<1>>, <<1, 1>>, <<1, 3>>>>
    /\ Len(fOut) = 1
    /\ fOut[1].index = 2
    /\ fOut[1].message = Msg("headingSequence", <<<<1, 2>>>>)

\* The terminal punctuation errors recorded for item k of the group.
TerminalErrorsOf(errors, k) ==
    {e \in DOMAIN errors :
        /\ errors[e].index = k - 1
        /\ errors[e].message.id \in {"listFirstEnd", "listLastEnd", "listSameEnd"}}

NoPotentialHeading(items) == \A k \in DOMAIN items : ~items[k].potential_heading

\* One error for each item that breaks its rule, none for the
\* others.
OneErrorPerBrokenRule(items, errors, obeys(_)) ==
    \A k \in DOMAIN items :
        Cardinality(TerminalErrorsOf(errors, k)) = IF obeys(k) THEN 0 ELSE 1

ErrorsAt(errors, i, id) ==
    {e \in DOMAIN errors : errors[e].index = i - 1 /\ errors[e].message.id = id}

\* The valid appendix markers before paragraph i, and the letter of the
\* latest one ("" when there is none).
MarkersBefore(ps, i) ==
    {j \in 1..(i - 1) : CapOf(ps[j]).kind = "appendix" /\ CapOf(ps[j]).valid}

AppendixAt(ps, i) ==
    IF MarkersBefore(ps, i) = {} THEN ""
    ELSE CapOf(ps[Max(MarkersBefore(ps, i))]).letter

CaptionsOf(ps, w) ==
    {i \in DOMAIN ps : CapOf(ps[i]).kind = "caption" /\ CapOf(ps[i]).what = w}

\* The well-formed captions of the main body.
MainCaptions(ps, w) ==
    {i \in CaptionsOf(ps, w) :
        AppendixAt(ps, i) = "" /\ CapOf(ps[i]).form \in {"seq", "yx"}}

\* C13 as stated: the mode of the first main-body caption is the mode of
\* the document, and every later main-body caption in the other mode gets
\* the "different format" error.
C13_ModeFixedByFirst ==
    fDone =>
        LET ps == fIn.doc.paragraphs
            M == MainCaptions(ps, fIn.what)
        IN \A i \in M :
              CapOf(ps[i]).form # CapOf(ps[Min(M)]).form =>
                  ErrorsAt(fOut, i, fIn.what \o "DifferentFormat") # {}

\* C13: separately for tables and images, a well-formed main-body caption
\* gets the "different format" error exactly when its mode differs from
\* the mode of the previous well-formed main-body caption of its kind.
C13_ModeOfPrevious ==
    fDone =>
        LET ps == fIn.doc.paragraphs
            M == MainCaptions(ps, fIn.what)
        IN \A i \in M :
              LET before == {j \in M : j < i}
              IN (ErrorsAt(fOut, i, fIn.what \o "DifferentFormat") # {})
                 <=> /\ before # {}
                     /\ CapOf(ps[i]).form # CapOf(ps[Max(before)]).form

C13_Witness ==
    /\ fDone
    /\ Len(fIn.doc.paragraphs) = 3
    /\ [i \in 1..3 |-> CapOf(fIn.doc.paragraphs[i]).form] = <<"seq", "yx", "yx">>
    /\ CaptionsOf(fIn.doc.paragraphs, fIn.what) = 1..3
    /\ ErrorsAt(fOut, 2, fIn.what \o "DifferentFormat") # {}
    /\ ErrorsAt(fOut, 3, fIn.what \o "DifferentFormat") = {}

\* C14: an appendix header whose letter is not one allowed letter gets the
\* invalid-letter error; the first header with an allowed letter gets no
\* letter error and every later header with the same letter gets the
\* duplicate-letter error.
C14_AppendixLetters ==
    fDone =>
        LET ps == fIn.paragraphs IN
        \A i \in DOMAIN ps :
            CapOf(ps[i]).kind = "appendix" =>
                LET c == CapOf(ps[i])
                    earlier == \E j \in 1..(i - 1) :
                                   /\ CapOf(ps[j]).kind = "appendix"
                                   /\ CapOf(ps[j]).valid
                                   /\ CapOf(ps[j]).letter = c.letter
                IN /\ Cardinality(ErrorsAt(fOut, i, "appendixBadLetter"))
                        = IF c.valid THEN 0 ELSE 1
                   /\ Cardinality(ErrorsAt(fOut, i, "appendixDuplicateLetter"))
                        = IF c.valid /\ earlier THEN 1 ELSE 0

C14_Witness ==
    /\ fDone
    /\ [i \in DOMAIN fIn.paragraphs |-> CapOf(fIn.paragraphs[i]).letter]
          = <<"A", "Yo", "A">>
    /\ ErrorsAt(fOut, 1, "appendixDuplicateLetter") = {}
    /\ ErrorsAt(fOut, 2, "appendixBadLetter") # {}
    /\ ErrorsAt(fOut, 3, "appendixDuplicateLetter") # {}

\* The positions in errors of the records about the missing title.
MissingTitleErrors(errors, title) ==
    {k \in DOMAIN errors : errors[k].message = Msg("missingElement", <<title>>)}

TitleMissing(doc, title) ==
    \A i \in DOMAIN doc.paragraphs : doc.paragraphs[i].text # title

\* C15 as stated: each required title never seen gets exactly one error,
\* the error has index -1 and no comment is attached for it.
C15_MissingTitleUnlocated ==
    passesDone =>
        \A t \in Range(ExpectedElements) :
            TitleMissing(new_doc, t) =>
                /\ Cardinality(MissingTitleErrors(passErrors.structural, t)) = 1
                /\ \A k \in MissingTitleErrors(passErrors.structural, t) :
                       passErrors.structural[k].index = -1
                /\ \A j \in DOMAIN new_doc.comments :
                       new_doc.comments[j].message # Msg("missingElement", <<t>>)

\* C15: each required title never seen gets exactly one error; the error
\* has index 0 and the paragraph kind, and add_comments_to_document
\* attaches its comment to the first paragraph of the document whenever
\* there is one and the call of add_comment returns.
C15_MissingTitleAtFirstParagraph ==
    passesDone =>
        \A t \in Range(ExpectedElements) :
            TitleMissing(new_doc, t) =>
                LET m == Msg("missingElement", <<t>>) IN
                /\ Cardinality(MissingTitleErrors(passErrors.structural, t)) = 1
                /\ \A k \in MissingTitleErrors(passErrors.structural, t) :
                       /\ passErrors.structural[k].index = 0
                       /\ passErrors.structural[k].element_type = PARAGRAPH
                /\ (Finished /\ commentsCalled) =>
                       ((\E j \in DOMAIN new_doc.comments :
                             new_doc.comments[j]
                                 = [on |-> PARAGRAPH, index |-> 0, message |-> m])
                        <=> /\ new_doc.paragraphs # <<>>
                            /\ \E k \in MissingTitleErrors(all_errors, t) :
                                   k \notin failed)

C15_Witness ==
    /\ Finished /\ commentsCalled
    /\ new_doc.paragraphs # <<>>
    /\ TitleMissing(new_doc, ExpectedElements[1])
    /\ \E j \in DOMAIN new_doc.comments :
           new_doc.comments[j]
               = [on |-> PARAGRAPH, index |-> 0,
                  message |-> Msg("missingElement", <<ExpectedElements[1]>>)]

IsTableMark(ps, j, kind, N) ==
    /\ CapOf(ps[j]).kind = kind
    /\ CapOf(ps[j]).what = "table"
    /\ CapOf(ps[j]).number = N

\* A continuation of the captioned table N with no ending after it.
OpenContinuation(ps, N) ==
    \E j \in DOMAIN ps :
        /\ IsTableMark(ps, j, "continuation", N)
        /\ \E i \in 1..(j - 1) : IsTableMark(ps, i, "caption", N)
        /\ \A k \in (j + 1)..Len(ps) : ~IsTableMark(ps, k, "ending", N)

AllContinuationsClosed(ps, N) ==
    \A j \in DOMAIN ps :
        IsTableMark(ps, j, "continuation", N) =>
            \E k \in (j + 1)..Len(ps) : IsTableMark(ps, k, "ending", N)

UnclosedReported(out, N) ==
    /\ ~out.raised
    /\ \E k \in DOMAIN out.errors :
           out.errors[k].message = Msg("continuationWithoutEnding", <<N>>)

\* C17 as stated: a continuation of a captioned table N with no ending
\* after it gets the 'continuation without ending' error; when every
\* continuation is followed by its ending there is no such error.
C17_UnclosedContinuationReported ==
    fDone =>
        \A N \in {"1", "2"} :
            /\ OpenContinuation(fIn.paragraphs, N) => UnclosedReported(fOut, N)
            /\ AllContinuationsClosed(fIn.paragraphs, N) =>
                   \A k \in DOMAIN fOut.errors :
                       fOut.errors[k].message
                           # Msg("continuationWithoutEnding", <<N>>)

\* The same with the lookup of the paragraph taken to find its position.
C17_UnclosedReportedWhenFound ==
    (fDone /\ ~fOut.raised) =>
        \A N \in {"1", "2"} :
            OpenContinuation(fIn.paragraphs, N) => UnclosedReported(fOut, N)

\* Caption i matches the pattern of its context: 'L.N' after a valid
\* appendix marker, 'N' or 'Y.N' before the first one.
WellFormed(ps, i) ==
    IF AppendixAt(ps, i) # "" THEN CapOf(ps[i]).form = "app"
    ELSE CapOf(ps[i]).form \in {"seq", "yx"}

HeadingsBefore(ps, i) == {j \in 1..(i - 1) : CapOf(ps[j]).kind = "heading"}

\* The error with the given id is on caption i exactly when wrong holds,
\* and it names the expected number.
NumberingError(errors, i, id, wrong, expected) ==
    /\ (ErrorsAt(errors, i, id) # {}) <=> wrong
    /\ \A e \in ErrorsAt(errors, i, id) : errors[e].message.args[1] = expected

C19_AppendixNeverCleared ==
    fDone =>
        LET ps == fIn.doc.paragraphs
            w == fIn.what
        IN \A i \in CaptionsOf(ps, w) :
             MarkersBefore(ps, i) # {} =>
               LET c == CapOf(ps[i])
                   L == CapOf(ps[Max(MarkersBefore(ps, i))]).letter
               IN /\ (ErrorsAt(fOut, i, w \o "Malformed") # {}) <=> c.form # "app"
                  /\ (ErrorsAt(fOut, i, w \o "WrongAppendix") # {})
                        <=> (c.form = "app" /\ c.letter # L)
                  /\ \A e \in ErrorsAt(fOut, i, w \o "WrongAppendix") :
                         fOut[e].message.args[1] = L
                  /\ \A id \in {"SectionNumber", "SequentialNumber",
                                "DifferentFormat", "ZeroNumber"} :
                         ErrorsAt(fOut, i, w \o id) = {}

C19_Witness ==
    /\ fDone
    /\ Len(fIn.doc.paragraphs) = 3
    /\ CapOf(fIn.doc.paragraphs[1]).kind = "appendix"
    /\ CapOf(fIn.doc.paragraphs[1]).letter = "A"
    /\ CapOf(fIn.doc.paragraphs[2]).kind = "appendix"
    /\ ~CapOf(fIn.doc.paragraphs[2]).valid
    /\ CapOf(fIn.doc.paragraphs[3]).kind = "caption"
    /\ CapOf(fIn.doc.paragraphs[3]).what = fIn.what
    /\ CapOf(fIn.doc.paragraphs[3]).number = "A.1"
    /\ fOut = <<>>

\* The step reads a numbered paragraph.
ReadsNumbered == fIn # <<>> /\ Head(fIn).kind = "num" /\ fOut' # fOut

\* C20: when a paragraph with numbering reference (n, l) is read, counter
\* (n, l) grows by one (from 0 when absent), every counter (n, l') with
\* l' > l is removed and the counters of the other numIds stay as they
\* were; a numbered paragraph at a deeper level of the list of the
\* numbered paragraph just before it gets the number 1.
C20_CounterStep ==
    [][ReadsNumbered =>
          LET n == Head(fIn).nid
              l == Head(fIn).lvl
              c == fOut.counters
              d == fOut'.counters
          IN /\ <<n, l>> \in DOMAIN d
             /\ d[<<n, l>>] = DictGet(c, <<n, l>>, 0) + 1
             /\ \A k \in DOMAIN d : ~(k[1] = n /\ k[2] > l)
             /\ \A k \in DOMAIN c \cup DOMAIN d :
                    k[1] # n => k \in DOMAIN c /\ k \in DOMAIN d /\ d[k] = c[k]
             /\ (/\ fOut.read # <<>>
                 /\ fOut.read[Len(fOut.read)].kind = "num"
                 /\ fOut.read[Len(fOut.read)].nid = n
                 /\ fOut.read[Len(fOut.read)].lvl < l)
                    => fOut'.rendered = 1]_vars

C20_Witness ==
    /\ fOut.read = <<NumRef("1", 1), NumRef("2", 1), NumRef("1", 0), NumRef("1", 1)>>
    /\ fOut.rendered = 1
    /\ fOut.counters = (<<"1", 0>> :> 1) @@ (<<"1", 1>> :> 1) @@ (<<"2", 1>> :> 1)

\* The numbers of the parent of node k in the tree (none for the root).
ParentNumbers(nodes, k) ==
    IF nodes[k].parent = 0 THEN <<>> ELSE nodes[nodes[k].parent].numbers

\* The next expected terminal number of node k among its siblings.
ExpectedAmongSiblings(nodes, k) ==
    Cardinality({j \in 1..(k - 1) : nodes[j].parent = nodes[k].parent}) + 1

Reported(errors, node) ==
    \E e \in DOMAIN errors : errors[e].paragraph = node.paragraph

\* The prefixes of the group form a correct hierarchy: every node
\* continues the numbers of its parent with the next number among its
\* siblings.
CorrectHierarchy(nodes) ==
    \A k \in DOMAIN nodes :
        nodes[k].numbers
            = Append(ParentNumbers(nodes, k), ExpectedAmongSiblings(nodes, k))

\* C21 as stated: a node of level 1 or deeper whose leading numbers are
\* not the numbers of its parent in the tree is reported with an expected
\* prefix, a node whose terminal number is not the next one among its
\* siblings is reported, and a correct hierarchy gives no error.
C21_TreeOrderErrors ==
    fDone =>
        /\ \A k \in DOMAIN fOut.nodes :
             LET node == fOut.nodes[k] IN
             /\ (/\ node.level >= 1
                 /\ SubSeq(node.numbers, 1, node.level)
                        # ParentNumbers(fOut.nodes, k))
                    => Reported(fOut.errors, node)
             /\ node.numbers[node.level + 1]
                    # ExpectedAmongSiblings(fOut.nodes, k)
                    => Reported(fOut.errors, node)
        /\ CorrectHierarchy(fOut.nodes) => fOut.errors = <<>>

\* The part of C21 about the leading numbers alone, on groups whose
\* level-0 and level-1 prefixes are in order.
C21_DeepParentChecked ==
    (fDone /\ [g \in DOMAIN fIn |-> fIn[g].numbers] = <<<<1>>, <<1, 1>>, <<1, 2, 1>>>>)
        => fOut.errors # <<>>

\* C22 as stated: a group is order-checked exactly when it is not made of
\* bullet items only, so a group with a numbered item, Word-numbered or
\* typed by hand, is checked.
C22_CheckedUnlessAllBullets ==
    fDone =>
        ((fOut.numbered_groups # <<>>)
            <=> \E g \in DOMAIN fIn : fIn[g].kind # "bullet")

\* A group typed by hand with the numbers 1, 3 gets an order error.
C22_ManualGroupChecked ==
    (fDone /\ fIn = <<OrderItem("manual", <<1>>), OrderItem("manual", <<3>>)>>)
        => fOut.numbering_errors # <<>>

\* C23 as stated: the i-th item of a bibliography group (from 1) whose
\* prefix is not exactly 'i.' gets a numbering error.
C23_ExactPlainPrefix ==
    fDone =>
        \A i \in DOMAIN fIn :
            fIn[i] # Append(Str(i), ".") =>
                \E e \in DOMAIN fOut : fOut[e].item = i - 1

\* The items of a collection, and the number of places an item has in it.
ItemsOf(collection) ==
    UNION {Range(collection[k]) : k \in DOMAIN collection}

PlacesIn(collection, i) ==
    Cardinality({<<k, j>> \in (DOMAIN collection) \X (1..MaxGroupParas + 1) :
                    j \in DOMAIN collection[k] /\ collection[k][j] = i})

\* Item i comes after a text paragraph that is no list item and follows
\* the bibliography title, with no title in between.
AfterBibliographyEnd(ps, i) ==
    \E t \in 1..(i - 1) :
        /\ ps[t] = "title"
        /\ \E x \in (t + 1)..(i - 1) : ps[x] \in {"text", "heading_text"}
        /\ \A y \in (t + 1)..(i - 1) : ps[y] # "title"

\* C24 as stated: a list item after the first text paragraph that follows
\* the bibliography title is in an ordinary group and in no bibliography
\* group, and every list item is in exactly one group of exactly one of
\* the two collections.
C24_BibliographyEndsAtText ==
    fDone =>
        \A i \in DOMAIN fIn :
            fIn[i] \in ListKinds =>
                /\ AfterBibliographyEnd(fIn, i) =>
                       /\ i \in ItemsOf(fOut.groups)
                       /\ i \notin ItemsOf(fOut.resource_groups)
                /\ PlacesIn(fOut.groups, i) + PlacesIn(fOut.resource_groups, i) = 1

\* The title, a text paragraph, then a numbered item: the item is ordinary.
C24_TextRightAfterTitle ==
    (fDone /\ fIn = <<"title", "text", "decimal">>)
        => 3 \in ItemsOf(fOut.groups)

\* Paragraph j follows the listing caption at l with no listing caption and
\* no appendix header from l + 1 to j.
InListingBody(ps, l, j) ==
    /\ ps[l].kind = "listing"
    /\ l < j
    /\ \A x \in (l + 1)..j : ps[x].kind \in {"text", "empty"}

\* C25 as stated: every non-empty paragraph after a listing caption, up to
\* the next listing caption or appendix header, is in code_paragraphs,
\* whatever its font.
C25_ListingBodyIsCode ==
    fDone =>
        \A l \in DOMAIN fIn : \A j \in DOMAIN fIn :
            (InListingBody(fIn, l, j) /\ fIn[j].kind = "text")
                => j \in Range(fOut)

\* A listing caption followed by a paragraph in another font.
C25_OtherFontAfterListing ==
    (fDone /\ fIn = <<CodePara("listing", FALSE), CodePara("text", FALSE)>>)
        => 2 \in Range(fOut)

\* C26 as stated: a non-empty paragraph that no earlier pass put into a
\* collection is checked against the body-text rules.
C26_UnclassifiedIsBodyChecked ==
    fDone =>
        \A i \in DOMAIN fIn :
            (fIn[i].shape # "empty" /\ fIn[i].collection = "none")
                => i \in fOut

\* A body paragraph that begins with the word 'Введение'.
C26_TitleWordAtStart ==
    (fDone /\ fIn = <<GeneralPara("title_start", "none", FALSE)>>)
        => 1 \in fOut

\* Positions a and b both exist in the document and hold blank paragraphs.
ExistAndBlank(ps, a, b) ==
    /\ a \in DOMAIN ps /\ ps[a] = "blank"
    /\ b \in DOMAIN ps /\ ps[b] = "blank"

\* C27 as stated: the heading at i has no spacing-before error only if the
\* paragraphs i-1 and i-2 exist and are blank, and no spacing-after error
\* only if i+1 and i+2 exist and are blank; otherwise the error is
\* recorded.
C27_SpacingNeedsExistingBlanks ==
    fDone =>
        \A i \in DOMAIN fOut :
            /\ ("spacingBefore" \notin fOut[i]) <=> ExistAndBlank(fIn, i - 1, i - 2)
            /\ ("spacingAfter" \notin fOut[i]) <=> ExistAndBlank(fIn, i + 1, i + 2)

\* A heading in the first paragraph of a document that ends with two blank
\* paragraphs.
C27_FirstParagraphHeading ==
    (fDone /\ fIn = <<"heading", "blank", "blank">>)
        => "spacingBefore" \in fOut[1]

\* last_heading_numbers before the paragraph at position k is processed.
NumbersBefore(k) ==
    IF k = 1 THEN InitialHeadingNumbers ELSE fOut.numbers_after[k - 1]

\* The ids of the errors recorded for the paragraph at position k.
ErrorIdsAt(k) ==
    {fOut.errors[e].message.id : e \in {x \in DOMAIN fOut.errors :
                                           fOut.errors[x].index = k - 1}}

\* C28: no paragraph of heading_paragraphs has a number of more than three
\* components; a candidate deeper than three levels gets the depth error,
\* goes to list_candidates and leaves last_heading_numbers as it was.
C28_DepthLimit ==
    fDone =>
        \A k \in DOMAIN fIn :
            Len(fIn[k].number_parts) > 3 =>
                /\ k \notin Range(fOut.heading_paragraphs)
                /\ "headingDepth" \in ErrorIdsAt(k)
                /\ k \in Range(fOut.list_candidates)
                /\ fOut.numbers_after[k] = NumbersBefore(k)

\* A candidate of four levels after accepted headings have been recorded.
C28_Witness ==
    /\ fDone
    /\ \E k \in DOMAIN fIn :
          /\ Len(fIn[k].number_parts) > 3
          /\ NumbersBefore(k) # InitialHeadingNumbers
          /\ k < Len(fIn) /\ (k + 1) \in Range(fOut.heading_paragraphs)

\* The positions of the candidates accepted into heading_paragraphs.
Accepted == Range(fOut.heading_paragraphs)

\* The number_parts of the candidates of the document, in order.
NumbersOf(cs) == [k \in DOMAIN cs |-> cs[k].number_parts]

\* C30: last_heading_numbers changes only at a candidate accepted into
\* heading_paragraphs, and then records the number seen at its level and
\* drops the deeper levels, also when that number got an error; a rejected
\* candidate leaves it unchanged.  After the headings 1, 1.1, 1.3 the
\* heading 1.4 gets no error.
C30_NumberingState ==
    fDone =>
        /\ \A k \in DOMAIN fIn :
              IF k \in Accepted
              THEN LET level == Len(fIn[k].number_parts) IN
                   /\ fOut.numbers_after[k][level] = fIn[k].number_parts
                   /\ DOMAIN fOut.numbers_after[k]
                          = {l \in DOMAIN NumbersBefore(k) : l < level} \cup {level}
                   /\ \A l \in 1..(level - 1) :
                          l \in DOMAIN NumbersBefore(k)
                              => fOut.numbers_after[k][l] = NumbersBefore(k)[l]
              ELSE fOut.numbers_after[k] = NumbersBefore(k)
        /\ (NumbersOf(fIn) = <<<<1>>, <<1, 1>>, <<1, 3>>, <<1, 4>>>>)
              => /\ ErrorIdsAt(3) = {"headingSequence"}
                 /\ ErrorIdsAt(4) = {}

\* The heading 1, a rejected candidate 2, then the headings 3 and 4: the
\* heading 3 is compared with 1 and gets the sequence error, the heading
\* 4 gets none.
C30_Witness ==
    /\ fDone
    /\ NumbersOf(fIn) = <<<<1>>, <<2>>, <<3>>, <<4>>>>
    /\ Accepted = {1, 3, 4}
    /\ "headingSequence" \in ErrorIdsAt(3)
    /\ ErrorIdsAt(4) = {}
    /\ fOut.last[1] = <<4>>

\* The headings 1, 1.1, 1.3, 1.4 have been processed.
C30_GapReached ==
    fDone /\ NumbersOf(fIn) = <<<<1>>, <<1, 1>>, <<1, 3>>, <<1, 4>>>>

\* C29 as stated: a paragraph error with an index of 0 or more has the
\* index of the paragraph the violation was found on.
C29_IndexOfOwnParagraph ==
    fDone =>
        \A e \in DOMAIN fOut :
            (fOut[e].element_type = PARAGRAPH /\ fOut[e].index >= 0)
                => fOut[e].index = fIn.target - 1

\* Two list items with the same text and style; the second is at fault.
C29_SameTextEarlier ==
    (/\ fDone
     /\ fIn.paragraphs = <<LocatePara("item", "Normal"), LocatePara("item", "Normal")>>
     /\ fIn.target = 2)
        => fOut[1].index = 1

====
